---- MODULE Spec2Model ----
(***************************************************************************)
(* A model of obo.py: the OBO reader (OntologyReader and the tag readers), *)
(* the in-memory Ontology, the reference resolution pass, the traversals   *)
(* (parents, children, paths) and the serializer (write_obo).              *)
(*                                                                         *)
(* Objects are modelled by value: a stanza is a record, the registry       *)
(* Ontology.stanzas (an OrderedDict) is the pair order/stanzas, and a      *)
(* resolved handle (reference_object, rel_object, type_object) is the key  *)
(* of the object it points to.  An attribute that Python code has not set  *)
(* yet is Unset; the Python value None is None.                            *)
(***************************************************************************)
EXTENDS Integers, Sequences, FiniteSets, TLC

None == "<None>"
Unset == "<unset>"
NoError == "ok"

\* ---------------------------------------------------------------- bounds
\* lines fed from one source, line by line
MaxLines == 4
\* is_a references of the Terms A and B in the documents of SpecGraph
MaxParents == 2
MaxParentsB == 1
\* depth at which the interpreter gives up a recursion (RuntimeError:
\* maximum recursion depth exceeded); larger than any acyclic chain here
RecursionLimit == 5

\* ------------------------------------------------------------ exceptions
\* the OBOException messages, and the other exceptions the code can raise
OBOInvalidFormat == "OBOInvalidFormat"
ExpectedId == "OBOException: expected tag id"
DuplicateId == "OBOException: duplicate tag id"
ReservedId == "OBOException: this id is reserved"
DifferentTypes ==
    "OBOException: the same id is used for different types of stanzas"
UndefinedSubset == "OBOException: undefined subset"
UndefinedSynonymType == "OBOException: undefined synonym type"
UnhandledStanzaType == "OBOException: unhandled stanza type"
SyntaxError == "OBOException: syntax error"
UnknownReference == "OBOException: reference to unknown"
ObsoleteReference == "OBOException: reference to obsolete"
MissingName == "OBOException: missing required tag name"
MissingInstanceOf == "OBOException: missing required tag instance_of"
TypeError == "TypeError"
AttributeError == "AttributeError"
RecursionError == "RuntimeError: maximum recursion depth exceeded"
LoopError == "Exception: loop"

\* ---------------------------------------------------------------- policies
UnhandledTagFail == "UnhandledTagFail"
UnhandledTagWarn == "UnhandledTagWarn"
UnhandledTagRecord == "UnhandledTagRecord"
UnhadledTagWarnAndRecord == "UnhadledTagWarnAndRecord"
UnhandledTagIgnore == "UnhandledTagIgnore"
UnhandledTagOption ==
    {UnhandledTagFail, UnhandledTagWarn, UnhandledTagRecord,
     UnhadledTagWarnAndRecord, UnhandledTagIgnore}

DeprecatedTagWarn == "DeprecatedTagWarn"
DeprecatedTagSilent == "DeprecatedTagSilent"
DeprecatedTagOption == {DeprecatedTagWarn, DeprecatedTagSilent}

DanglingReferenceFail == "DanglingReferenceFail"
DanglingReferenceIgnore == "DanglingReferenceIgnore"
DanglingReferenceWarn == "DanglingReferenceWarn"
DanglingReferenceWarnAndIgnore == "DanglingReferenceWarnAndIgnore"
DanglingReferenceOption ==
    {DanglingReferenceFail, DanglingReferenceIgnore, DanglingReferenceWarn,
     DanglingReferenceWarnAndIgnore}

\* ------------------------------------------------------------- data model
StanzaKinds == {"Term", "Typedef", "Instance"}
TypedefFlags ==
    {"is_cyclic", "is_reflexive", "is_symmetric", "is_anti_symmetric",
     "is_transitive", "is_metadata_tag"}
BuiltinSource == "<<builtin>>"

\* Stanza.__init__, TermOrType.__init__, Term.__init__
NewStanza(kind, source, lineno, ontology, id) ==
    [kind |-> kind, source |-> source, lineno |-> lineno,
     id |-> id.value, id_source |-> id.source, id_lineno |-> id.lineno,
     name |-> None, is_anonymous |-> FALSE, alt_ids |-> <<>>,
     comment |-> None, synonyms |-> <<>>, references |-> <<>>,
     is_obsolete |-> FALSE, created_by |-> None, creation_date |-> None,
     definition |-> None, definition_dbxrefs |-> None, xref |-> <<>>,
     replaced_by |-> <<>>, consider |-> <<>>,
     namespace |-> ontology.default_namespace,
     subsets |-> {}, has_subset_objects |-> FALSE, subset_objects |-> <<>>,
     intersection_of |-> <<>>,
     flags |-> [f \in TypedefFlags |-> Unset],
     unhandled_tags |-> <<>>]

\* BuiltinStanza.__init__ and its four subclasses: an object with only
\* ontology, id (a plain string, not a SourcedValue) and is_obsolete
NewBuiltinStanza(ontology, id) ==
    [NewStanza("Builtin", None, 0, ontology,
               [value |-> id, source |-> None, lineno |-> 0])
     EXCEPT !.namespace = None]

\* BuiltinStanza.__init__: registers the marker in stanzas and in builtin
AddBuiltin(o, id) ==
    [o EXCEPT !.order = Append(@, id),
              !.stanzas = (id :> NewBuiltinStanza(o, id)) @@ @,
              !.builtin = @ \cup {id}]

\* StanzaReference.__init__ : the new reference, not yet resolved
NewStanzaReference(source, lineno, rel, reference) ==
    [source |-> source, lineno |-> lineno, rel |-> rel,
     reference |-> reference, value |-> None,
     rel_object |-> Unset, reference_object |-> Unset]

\* Synonym.__init__
NewSynonym(source, lineno, text, scope, type, dbxrefs) ==
    [source |-> source, lineno |-> lineno, text |-> text, scope |-> scope,
     type |-> type, dbxrefs |-> dbxrefs, type_object |-> Unset]

\* XRef.__init__
NewXRef(source, lineno, reference, description, match, matched) ==
    [source |-> source, lineno |-> lineno, reference |-> reference,
     description |-> description, match |-> match, matched |-> matched]

\* The references dict of a stanza (relation label -> list) is kept as one
\* list in insertion order; the list under a label is its sub-list.
RefsUnder(refs, rel) == SelectSeq(refs, LAMBDA r : r.rel = rel)

RECURSIVE RelKeysFrom(_, _, _)
RelKeysFrom(refs, i, seen) ==
    IF i > Len(refs) THEN <<>>
    ELSE IF refs[i].rel \in seen THEN RelKeysFrom(refs, i + 1, seen)
    ELSE <<refs[i].rel>> \o RelKeysFrom(refs, i + 1, seen \cup {refs[i].rel})

\* the keys of the dict, in order of first insertion
RelKeys(refs) == RelKeysFrom(refs, 1, {})

Range(s) == {s[i] : i \in DOMAIN s}

\* the state threaded through a load: the ontology, the OntologyReader,
\* the exception raised (NoError when none) and what was written to stderr
Raise(st, e) == [st EXCEPT !.err = e]
Warning(st, w) == [st EXCEPT !.warns = Append(@, w)]


\* ------------------------------------------------------------ the readers
\* A line of a source, after the scanner's patterns: k is what the line is
\* ("header": [v]; "tag": tag: value; "blank"; "comment": ! ...; "garbage":
\* anything else), wf says whether the value matches the pattern of the
\* handler its tag selects, and v, w, x, y are the groups of that pattern
\* ("" for an optional group that is absent).
Line(k, tag, wf, v, w, x, y) ==
    [w |-> w, k |-> k, tag |-> tag, wf |-> wf, v |-> v, x |-> x, y |-> y]
HeaderLine(kind) == Line("header", "", TRUE, kind, "", "", "")
TagLine(tag, v) == Line("tag", tag, TRUE, v, "", "", "")
TagLine2(tag, v, w) == Line("tag", tag, TRUE, v, w, "", "")
TagLine4(tag, v, w, x, y) == Line("tag", tag, TRUE, v, w, x, y)
BadLine(tag) == Line("tag", tag, FALSE, "", "", "", "")

\* re.MatchObject.group() of an optional group
Group(g) == IF g = "" THEN None ELSE g

\* SourcedValue(value.source, value.lineno, ...) of the line being read
ValueSource(st) == [source |-> st.rd.source, lineno |-> st.rd.lineno]

\* the stanza the current reader is attached to (StanzaReader.stanza)
CurrentStanza(st) == st.rd.stanza[st.rd.current]
TheStanza(st) == st.onto.stanzas[CurrentStanza(st)]
SetStanza(st, s) == [st EXCEPT !.onto.stanzas[CurrentStanza(st)] = s]

\* self.stanza.<attr> = get_free_value(tag, value)
SetFreeAttr(st, attr, line) ==
    IF ~line.wf THEN Raise(st, OBOInvalidFormat)
    ELSE SetStanza(st, [TheStanza(st) EXCEPT ![attr] = line.v])

\* self.stanza.<attr>.append(get_free_value(tag, value))
AppendFreeAttr(st, attr, line) ==
    IF ~line.wf THEN Raise(st, OBOInvalidFormat)
    ELSE SetStanza(st, [TheStanza(st) EXCEPT ![attr] = Append(@, line.v)])

\* self.ontology.<attr> = get_free_value(tag, value)   (HeaderReader)
SetHeaderAttr(st, attr, line) ==
    IF ~line.wf THEN Raise(st, OBOInvalidFormat)
    ELSE [st EXCEPT !.onto[attr] = line.v]

\* DeprecatedTagOption.handle
DeprecatedHandle(st, tag) ==
    IF st.rd.deprecated_tag_option = DeprecatedTagWarn
    THEN Warning(st, <<"deprecated tag", tag>>)
    ELSE st

\* UnhandledTagOption.handle and its subclasses.  UnhandledTagFail builds
\* its OBOException with one argument where two are required.
UnhandledHandle(st, target, tag, value) ==
    LET opt == st.rd.unhandled_tag_option
        rec(s) == IF target = "ontology"
                  THEN [s EXCEPT !.onto.unhandled_tags =
                                     Append(@, <<tag, value>>)]
                  ELSE [s EXCEPT !.onto.stanzas[target].unhandled_tags =
                                     Append(@, <<tag, value>>)]
    IN  CASE opt = UnhandledTagFail -> Raise(st, TypeError)
          [] opt = UnhandledTagWarn -> Warning(st, <<"unhandled tag", tag>>)
          [] opt = UnhandledTagRecord -> rec(st)
          [] opt = UnhadledTagWarnAndRecord ->
                 rec(Warning(st, <<"unhandled tag", tag>>))
          [] OTHER -> st

\* TagReader.default_read: a warning, whatever the unhandled-tag option
default_read(st, tag, line) ==
    Warning(st, <<"unhandled tag", tag>>)

\* StanzaReader.read_id without the isinstance test on a registered stanza
read_id_any_type(st, line) ==
    LET k == st.rd.current
        id == line.v
        srcid == [value |-> id, source |-> st.rd.source,
                  lineno |-> st.rd.lineno]
    IN  IF st.rd.stanza[k] # None THEN Raise(st, DuplicateId)
        ELSE IF ~line.wf THEN Raise(st, OBOInvalidFormat)
        ELSE IF id \in st.onto.builtin THEN Raise(st, ReservedId)
        ELSE IF id \in DOMAIN st.onto.stanzas
        THEN [st EXCEPT !.onto.stanzas[id].id_source = srcid.source,
                        !.onto.stanzas[id].id_lineno = srcid.lineno,
                        !.rd.stanza[k] = id]
        ELSE [st EXCEPT
                !.onto.order = Append(@, id),
                !.onto.stanzas =
                    (id :> NewStanza(k, st.rd.rsource[k], st.rd.rlineno[k],
                                     st.onto, srcid)) @@ @,
                !.rd.stanza[k] = id]

\* read_id registering a new stanza at every declaration of an id
read_id_fresh(st, line) ==
    LET k == st.rd.current
        id == line.v
        srcid == [value |-> id, source |-> st.rd.source,
                  lineno |-> st.rd.lineno]
        fresh == NewStanza(k, st.rd.rsource[k], st.rd.rlineno[k], st.onto,
                           srcid)
    IN  IF st.rd.stanza[k] # None THEN Raise(st, DuplicateId)
        ELSE IF ~line.wf THEN Raise(st, OBOInvalidFormat)
        ELSE IF id \in st.onto.builtin THEN Raise(st, ReservedId)
        ELSE IF id \in DOMAIN st.onto.stanzas
        THEN IF st.onto.stanzas[id].kind # k THEN Raise(st, DifferentTypes)
             ELSE [st EXCEPT !.onto.stanzas[id] = fresh,
                             !.rd.stanza[k] = id]
        ELSE [st EXCEPT
                !.onto.order = Append(@, id),
                !.onto.stanzas = (id :> fresh) @@ @,
                !.rd.stanza[k] = id]

\* StanzaReader.read_id
read_id(st, line) ==
    LET k == st.rd.current
        id == line.v
        srcid == [value |-> id, source |-> st.rd.source,
                  lineno |-> st.rd.lineno]
    IN  IF st.rd.stanza[k] # None THEN Raise(st, DuplicateId)
        ELSE IF ~line.wf THEN Raise(st, OBOInvalidFormat)
        ELSE IF id \in st.onto.builtin THEN Raise(st, ReservedId)
        ELSE IF id \in DOMAIN st.onto.stanzas
        THEN IF st.onto.stanzas[id].kind # k THEN Raise(st, DifferentTypes)
             ELSE [st EXCEPT !.onto.stanzas[id].id_source = srcid.source,
                             !.onto.stanzas[id].id_lineno = srcid.lineno,
                             !.rd.stanza[k] = id]
        ELSE [st EXCEPT
                !.onto.order = Append(@, id),
                !.onto.stanzas =
                    (id :> NewStanza(k, st.rd.rsource[k], st.rd.rlineno[k],
                                     st.onto, srcid)) @@ @,
                !.rd.stanza[k] = id]

\* StanzaReader.read_name
read_name(st, line) ==
    IF ~line.wf THEN Raise(st, OBOInvalidFormat)
    ELSE LET s == TheStanza(st)
             w == IF s.name # None /\ s.name # line.v
                  THEN Warning(st, <<"duplicate tag", "name">>)
                  ELSE st
         IN  SetStanza(w, [s EXCEPT !.name = line.v])

\* read_def tolerating a second def of the same value, as read_name does
read_def_same_value(st, line) ==
    LET s == TheStanza(st)
    IN  IF s.definition # None /\ s.definition # line.v
        THEN Raise(st, TypeError)
        ELSE IF ~line.wf THEN Raise(st, OBOInvalidFormat)
        ELSE SetStanza(st, [s EXCEPT !.definition = line.v,
                                     !.definition_dbxrefs = Group(line.y)])

\* StanzaReader.read_def: the duplicate is reported by an OBOException built
\* with one argument where two are required
read_def(st, line) ==
    LET s == TheStanza(st)
    IN  IF s.definition # None THEN Raise(st, TypeError)
        ELSE IF ~line.wf THEN Raise(st, OBOInvalidFormat)
        ELSE SetStanza(st, [s EXCEPT !.definition = line.v,
                                     !.definition_dbxrefs = Group(line.y)])

\* StanzaReader.read_comment
read_comment(st, line) ==
    LET s == TheStanza(st)
    IN  IF s.comment # None THEN Raise(st, TypeError)
        ELSE IF ~line.wf THEN Raise(st, OBOInvalidFormat)
        ELSE SetStanza(st, [s EXCEPT !.comment = line.v])

\* get_boolean_value into a stanza attribute
read_boolean(st, attr, line) ==
    IF ~line.wf THEN Raise(st, OBOInvalidFormat)
    ELSE SetStanza(st, [TheStanza(st) EXCEPT ![attr] = (line.v = "true")])

\* TypedefReader.read_is_cyclic ... read_is_metadata_tag
read_flag(st, flag, line) ==
    IF ~line.wf THEN Raise(st, OBOInvalidFormat)
    ELSE SetStanza(st, [TheStanza(st) EXCEPT
                          !.flags[flag] = IF line.v = "true" THEN "true"
                                          ELSE "false"])

\* StanzaReader._read_xref
read_xref_as(st, tag, line) ==
    LET d == IF tag # "xref" THEN DeprecatedHandle(st, tag) ELSE st
    IN  IF ~line.wf THEN Raise(d, OBOInvalidFormat)
        ELSE SetStanza(d, [TheStanza(d) EXCEPT !.xref =
               Append(@, NewXRef(d.rd.source, d.rd.lineno, line.v,
                                 Group(line.w), Group(line.x),
                                 Group(line.y)))])

\* StanzaReference(value.source, value.lineno, self.stanza, rel, id) with
\* the collection it is appended to
AddReference(st, collection, rel, reference) ==
    SetStanza(st, [TheStanza(st) EXCEPT ![collection] =
        Append(@, NewStanzaReference(st.rd.source, st.rd.lineno, rel,
                                     reference))])

\* StanzaReader._read_simple_ref, and the Typedef and Instance readers that
\* build the reference from a free value
read_simple_ref(st, line, rel) ==
    IF ~line.wf THEN Raise(st, OBOInvalidFormat)
    ELSE AddReference(st, "references", rel, line.v)


\* TermOrTypeReader.read_relationship
read_relationship(st, line) ==
    IF ~line.wf THEN Raise(st, OBOInvalidFormat)
    ELSE AddReference(st, "references", line.v, line.w)

\* TermReader.read_intersection_of
read_intersection_of(st, line) ==
    IF ~line.wf THEN Raise(st, OBOInvalidFormat)
    ELSE AddReference(st, "intersection_of",
                      IF Group(line.v) = None THEN "is_a" ELSE line.v, line.w)

\* InstanceReader.read_property_value
read_property_value(st, line) ==
    IF ~line.wf THEN Raise(st, OBOInvalidFormat)
    ELSE LET ref == NewStanzaReference(st.rd.source, st.rd.lineno,
                                       line.v, line.x)
         IN  SetStanza(st, [TheStanza(st) EXCEPT !.references =
                 Append(@, IF line.w # "" THEN [ref EXCEPT !.value = line.w]
                           ELSE ref)])

\* the keys of the OrderedDicts subsetdef and synonymtypedef
DefNames(defs) == {defs[i].name : i \in DOMAIN defs}
DefNamed(defs, name) == CHOOSE d \in Range(defs) : d.name = name

\* TermOrTypeReader.read_subset adding the name to the stanza before it
\* looks for the subsetdef
read_subset_added_first(st, line) ==
    IF ~line.wf THEN Raise(st, OBOInvalidFormat)
    ELSE LET s == TheStanza(st)
             w == IF line.v \in s.subsets
                  THEN Warning(st, <<"duplicate tag", "subsetdef">>)
                  ELSE st
             added == SetStanza(w, [s EXCEPT !.subsets = @ \cup {line.v}])
         IN  IF line.v \notin DefNames(st.onto.subsetdef)
             THEN Raise(added, UndefinedSubset)
             ELSE added

\* TermOrTypeReader.read_subset
read_subset(st, line) ==
    IF ~line.wf THEN Raise(st, OBOInvalidFormat)
    ELSE IF line.v \notin DefNames(st.onto.subsetdef)
    THEN Raise(st, UndefinedSubset)
    ELSE LET s == TheStanza(st)
             w == IF line.v \in s.subsets
                  THEN Warning(st, <<"duplicate tag", "subsetdef">>)
                  ELSE st
         IN  SetStanza(w, [s EXCEPT !.subsets = @ \cup {line.v}])

\* Synonym(value.source, value.lineno, self.stanza, ...)
AddSynonym(st, text, scope, type, dbxrefs) ==
    SetStanza(st, [TheStanza(st) EXCEPT !.synonyms =
        Append(@, NewSynonym(st.rd.source, st.rd.lineno, text, scope, type,
                             dbxrefs))])

\* read_synonym with the scope of an unscoped line always RELATED
read_synonym_related(st, line) ==
    IF ~line.wf THEN Raise(st, OBOInvalidFormat)
    ELSE LET type == Group(line.x)
             scope == IF Group(line.w) = None THEN "RELATED" ELSE line.w
         IN  IF type # None /\ type \notin DefNames(st.onto.synonymtypedef)
             THEN Raise(st, UndefinedSynonymType)
             ELSE AddSynonym(st, line.v, scope, type, Group(line.y))

\* StanzaReader.read_synonym: v text, w scope, x type, y dbxrefs
read_synonym(st, line) ==
    IF ~line.wf THEN Raise(st, OBOInvalidFormat)
    ELSE LET type == Group(line.x)
             known == type \in DefNames(st.onto.synonymtypedef)
             default_scope ==
                 IF type = None THEN "RELATED"
                 ELSE DefNamed(st.onto.synonymtypedef, type).scope
             scope == IF Group(line.w) = None THEN default_scope ELSE line.w
         IN  IF type # None /\ ~known THEN Raise(st, UndefinedSynonymType)
             ELSE AddSynonym(st, line.v, scope, type, Group(line.y))

\* TermOrTypeReader._read_deprecated_synonym: v text, x type, y dbxrefs
read_deprecated_synonym(st, tag, line, scope) ==
    LET d == DeprecatedHandle(st, tag)
        type == Group(line.x)
    IN  IF ~line.wf THEN Raise(d, OBOInvalidFormat)
        ELSE IF type # None /\ type \notin DefNames(d.onto.synonymtypedef)
        THEN Raise(d, UndefinedSynonymType)
        ELSE AddSynonym(d, line.v, scope, type, Group(line.y))

\* TermOrTypeReader.read_use_term calls self._read_consider, a method no
\* reader defines
read_use_term(st, line) == Raise(st, AttributeError)

\* HeaderReader.read_subsetdef: v name, w description
read_subsetdef(st, line) ==
    IF ~line.wf THEN Raise(st, OBOInvalidFormat)
    ELSE IF line.v \in DefNames(st.onto.subsetdef)
    THEN Warning(st, <<"duplicate tag", "subsetdef">>)
    ELSE [st EXCEPT !.onto.subsetdef =
            Append(@, [name |-> line.v, description |-> line.w,
                       source |-> st.rd.source, lineno |-> st.rd.lineno])]

\* HeaderReader.read_synonymtypedef: v name, w description, x scope
read_synonymtypedef(st, line) ==
    IF ~line.wf THEN Raise(st, OBOInvalidFormat)
    ELSE IF line.v \in DefNames(st.onto.synonymtypedef)
    THEN Warning(st, <<"duplicate tag", "synonymtypedef">>)
    ELSE [st EXCEPT !.onto.synonymtypedef =
            Append(@, [name |-> line.v, description |-> line.w,
                       scope |-> IF Group(line.x) = None THEN "RELATED"
                                 ELSE line.x,
                       source |-> st.rd.source, lineno |-> st.rd.lineno])]

\* HeaderReader.read_remark
read_remark(st, line) ==
    IF ~line.wf THEN Raise(st, OBOInvalidFormat)
    ELSE [st EXCEPT !.onto.remark = Append(@, line.v)]


\* --------------------------------------------------- the synonym patterns
\* The value of a synonym tag as the tokens the patterns tell apart: the
\* quoted text, an unquoted word, the bracketed dbxref list.  Tokens are
\* separated by one space.
Quoted(s) == [t |-> "quoted", s |-> s]
Word(s) == [t |-> "word", s |-> s]
DbXRefList(s) == [t |-> "dbxrefs", s |-> s]

\* the words of the SCOPE group of SYNONYM_PATTERN
ScopeWords == {"EXACT", "BROAD", "NARROW", "RELATED"}

\* SYNONYM_PATTERN.match: "text", then an optional scope word, then an
\* optional type word, then an optional dbxref list, then the end.  The
\* optional groups are greedy; giving one up never lets the rest match.
SYNONYM_PATTERN(toks) ==
    IF toks = <<>> \/ toks[1].t # "quoted" THEN BadLine("synonym")
    ELSE LET r1 == Tail(toks)
             hasScope == r1 # <<>> /\ r1[1].t = "word"
                             /\ r1[1].s \in ScopeWords
             r2 == IF hasScope THEN Tail(r1) ELSE r1
             hasType == r2 # <<>> /\ r2[1].t = "word"
             r3 == IF hasType THEN Tail(r2) ELSE r2
             hasDb == r3 # <<>> /\ r3[1].t = "dbxrefs"
             r4 == IF hasDb THEN Tail(r3) ELSE r3
         IN  IF r4 # <<>> THEN BadLine("synonym")
             ELSE TagLine4("synonym", toks[1].s,
                           IF hasScope THEN r1[1].s ELSE "",
                           IF hasType THEN r2[1].s ELSE "",
                           IF hasDb THEN r3[1].s ELSE "")

\* DEPRECATED_SYNONYM_PATTERN.match: "text", an optional type word, an
\* optional dbxref list
DEPRECATED_SYNONYM_PATTERN(tag, toks) ==
    IF toks = <<>> \/ toks[1].t # "quoted" THEN BadLine(tag)
    ELSE LET r1 == Tail(toks)
             hasType == r1 # <<>> /\ r1[1].t = "word"
             r2 == IF hasType THEN Tail(r1) ELSE r1
             hasDb == r2 # <<>> /\ r2[1].t = "dbxrefs"
             r3 == IF hasDb THEN Tail(r2) ELSE r2
         IN  IF r3 # <<>> THEN BadLine(tag)
             ELSE TagLine4(tag, toks[1].s, "",
                           IF hasType THEN r1[1].s ELSE "",
                           IF hasDb THEN r2[1].s ELSE "")

\* ---------------------------------------------------------- tag dispatch
\* the read_* methods each reader class has (hasattr(self, method_name))
HeaderReaderMethods ==
    {"format_version", "data_version", "date", "saved_by",
     "auto_generated_by", "subsetdef", "synonymtypedef", "remark",
     "default_namespace"}
StanzaReaderMethods ==
    {"id", "name", "def", "is_anonymous", "alt_id", "comment", "xref",
     "is_obsolete", "replaced_by", "namespace", "consider", "synonym"}
InstanceReaderMethods ==
    StanzaReaderMethods \cup {"instance_of", "property_value"}
TermOrTypeReaderMethods ==
    StanzaReaderMethods \cup
    {"subset", "exact_synonym", "narrow_synonym", "related_synonym",
     "broad_synonym", "xref_analog", "xref_unk", "is_a", "relationship",
     "use_term", "created_by", "creation_date"}
TermReaderMethods ==
    TermOrTypeReaderMethods \cup {"union_of", "disjoint_from", "intersection_of"}
TypedefReaderMethods ==
    TermOrTypeReaderMethods \cup
    {"domain", "range", "inverse_of", "transitive_over"} \cup TypedefFlags

ReaderMethods(reader) ==
    CASE reader = "Header" -> HeaderReaderMethods
      [] reader = "Term" -> TermReaderMethods
      [] reader = "Typedef" -> TypedefReaderMethods
      [] reader = "Instance" -> InstanceReaderMethods

\* tag.replace('-', '_') on the tags that are written with a hyphen
MethodName(tag) ==
    CASE tag = "format-version" -> "format_version"
      [] tag = "data-version" -> "data_version"
      [] tag = "saved-by" -> "saved_by"
      [] tag = "auto-generated-by" -> "auto_generated_by"
      [] tag = "default-namespace" -> "default_namespace"
      [] OTHER -> tag

\* getattr(self, method_name)(value)
CallMethod(st, m, line) ==
    CASE m = "format_version" -> SetHeaderAttr(st, "format_version", line)
      [] m = "data_version" -> SetHeaderAttr(st, "version", line)
      [] m = "date" -> SetHeaderAttr(st, "date", line)
      [] m = "saved_by" -> SetHeaderAttr(st, "saved_by", line)
      [] m = "auto_generated_by" -> SetHeaderAttr(st, "auto_generated_by", line)
      [] m = "default_namespace" -> SetHeaderAttr(st, "default_namespace", line)
      [] m = "subsetdef" -> read_subsetdef(st, line)
      [] m = "synonymtypedef" -> read_synonymtypedef(st, line)
      [] m = "remark" -> read_remark(st, line)
      [] m = "id" -> read_id(st, line)
      [] m = "name" -> read_name(st, line)
      [] m = "def" -> read_def(st, line)
      [] m = "comment" -> read_comment(st, line)
      [] m = "is_anonymous" -> read_boolean(st, "is_anonymous", line)
      [] m = "is_obsolete" -> read_boolean(st, "is_obsolete", line)
      [] m = "alt_id" -> AppendFreeAttr(st, "alt_ids", line)
      [] m = "replaced_by" -> AppendFreeAttr(st, "replaced_by", line)
      [] m = "consider" -> AppendFreeAttr(st, "consider", line)
      [] m = "namespace" -> SetFreeAttr(st, "namespace", line)
      [] m = "created_by" -> SetFreeAttr(st, "created_by", line)
      [] m = "creation_date" -> SetFreeAttr(st, "creation_date", line)
      [] m = "xref" -> read_xref_as(st, "xref", line)
      [] m = "xref_analog" -> read_xref_as(st, "xref_analog", line)
      [] m = "xref_unk" -> read_xref_as(st, "xref_unk", line)
      [] m = "synonym" -> read_synonym(st, line)
      [] m = "exact_synonym" ->
             read_deprecated_synonym(st, "exact_synonym", line, "EXACT")
      [] m = "narrow_synonym" ->
             read_deprecated_synonym(st, "narrow_synonym", line, "NARROW")
      [] m = "related_synonym" ->
             read_deprecated_synonym(st, "related_synonym", line, "RELATED")
      [] m = "broad_synonym" ->
             read_deprecated_synonym(st, "broad_synonym", line, "BROAD")
      [] m = "use_term" -> read_use_term(st, line)
      [] m = "subset" -> read_subset(st, line)
      [] m = "is_a" -> read_simple_ref(st, line, "is_a")
      [] m = "union_of" -> read_simple_ref(st, line, "union_of")
      [] m = "disjoint_from" -> read_simple_ref(st, line, "disjoint_from")
      [] m = "relationship" -> read_relationship(st, line)
      [] m = "intersection_of" -> read_intersection_of(st, line)
      [] m = "domain" -> read_simple_ref(st, line, "domain")
      [] m = "range" -> read_simple_ref(st, line, "range")
      [] m = "inverse_of" -> read_simple_ref(st, line, "inverse_of")
      [] m = "transitive_over" -> read_simple_ref(st, line, "transitive_over")
      [] m = "instance_of" -> read_simple_ref(st, line, "instance_of")
      [] m = "property_value" -> read_property_value(st, line)
      [] m \in TypedefFlags -> read_flag(st, m, line)

\* TagReader.read
TagReaderRead(st, line) ==
    IF MethodName(line.tag) \in ReaderMethods(st.rd.current)
    THEN CallMethod(st, MethodName(line.tag), line)
    ELSE default_read(st, line.tag, line)

\* StanzaReader.read, and TagReader.read for the header reader
ReaderRead(st, line) ==
    IF st.rd.current # "Header" /\ line.tag # "id"
       /\ CurrentStanza(st) = None
    THEN Raise(st, ExpectedId)
    ELSE TagReaderRead(st, line)

\* ReadLine with a stanza header that leaves the reader on its last stanza
ReadLineKeepStanza(st0, line) ==
    LET st == [st0 EXCEPT !.rd.lineno = @ + 1, !.warns = <<>>]
    IN  CASE line.k \in {"blank", "comment"} -> st
          [] line.k = "header" ->
                 IF line.v \notin StanzaKinds
                 THEN Raise(st, UnhandledStanzaType)
                 ELSE [st EXCEPT !.rd.current = line.v,
                                 !.rd.rsource[line.v] = st.rd.source,
                                 !.rd.rlineno[line.v] = st.rd.lineno]
          [] line.k = "tag" -> ReaderRead(st, line)
          [] OTHER -> Raise(st, SyntaxError)

\* OntologyReader.read, the body of the loop, skipping a line that is
\* neither a known header nor a tag as it skips a comment
ReadLineSkipUnknown(st0, line) ==
    LET st == [st0 EXCEPT !.rd.lineno = @ + 1, !.warns = <<>>]
    IN  CASE line.k = "header" /\ line.v \in StanzaKinds ->
                 [st EXCEPT !.rd.current = line.v,
                            !.rd.rsource[line.v] = st.rd.source,
                            !.rd.rlineno[line.v] = st.rd.lineno,
                            !.rd.stanza[line.v] = None]
          [] line.k = "tag" -> ReaderRead(st, line)
          [] OTHER -> st

\* OntologyReader.read, the body of the loop over the lines of the file
ReadLine(st0, line) ==
    LET st == [st0 EXCEPT !.rd.lineno = @ + 1, !.warns = <<>>]
    IN  CASE line.k \in {"blank", "comment"} -> st
          [] line.k = "header" ->
                 IF line.v \notin StanzaKinds
                 THEN Raise(st, UnhandledStanzaType)
                 ELSE [st EXCEPT !.rd.current = line.v,
                                 !.rd.rsource[line.v] = st.rd.source,
                                 !.rd.rlineno[line.v] = st.rd.lineno,
                                 !.rd.stanza[line.v] = None]
          [] line.k = "tag" -> ReaderRead(st, line)
          [] OTHER -> Raise(st, SyntaxError)

\* OntologyReader.read, before the loop: the header reader is current, the
\* options are handed to every reader and the line count restarts
BeginRead(st, source, unhandled_tag_option, deprecated_tag_option) ==
    [st EXCEPT !.rd.current = "Header",
               !.rd.source = source,
               !.rd.lineno = 0,
               !.rd.unhandled_tag_option = unhandled_tag_option,
               !.rd.deprecated_tag_option = deprecated_tag_option,
               !.err = NoError, !.warns = <<>>]

RECURSIVE ReadLines(_, _, _)
\* OntologyReader.read, the loop: stops at the first exception
ReadLines(st, lines, i) ==
    IF i > Len(lines) \/ st.err # NoError THEN st
    ELSE ReadLines(ReadLine(st, lines[i]), lines, i + 1)

\* OntologyReader.read
Read(st, source, lines, unhandled_tag_option, deprecated_tag_option) ==
    ReadLines(BeginRead(st, source, unhandled_tag_option,
                        deprecated_tag_option), lines, 1)

\* OntologyReader.__init__: a header reader and the three stanza readers
NewOntologyReader ==
    [current |-> "Header",
     stanza |-> [k \in StanzaKinds |-> None],
     rsource |-> [k \in StanzaKinds |-> None],
     rlineno |-> [k \in StanzaKinds |-> 0],
     source |-> None, lineno |-> 0,
     unhandled_tag_option |-> None, deprecated_tag_option |-> None]


\* --------------------------------------------------------- the Ontology
BuiltinRelations ==
    <<"is_a", "disjoint_from", "instance_of", "inverse_of", "union_of",
      "intersection_of", "range", "domain">>

\* range and domain of each builtin relation in the BUILTIN text
BuiltinRange(r) ==
    CASE r \in {"is_a", "range", "domain"} -> "OBO:TERM_OR_TYPE"
      [] r = "inverse_of" -> "OBO:TYPE"
      [] OTHER -> "OBO:TERM"
BuiltinDomain(r) ==
    CASE r = "is_a" -> "OBO:TERM_OR_TYPE"
      [] r = "instance_of" -> "OBO:INSTANCE"
      [] r \in {"inverse_of", "range", "domain"} -> "OBO:TYPE"
      [] OTHER -> "OBO:TERM"

\* one [Typedef] block of BUILTIN, with the blank line that follows it
BuiltinBlock(r) ==
    <<HeaderLine("Typedef"), TagLine("id", r), TagLine("name", r),
      TagLine("range", BuiltinRange(r)), TagLine("domain", BuiltinDomain(r)),
      TagLine4("def", "def of " \o r, "", "",
               IF r \in {"range", "domain"} THEN "" ELSE "OBO:defs"),
      Line("blank", "", TRUE, "", "", "", "")>>

RECURSIVE BuiltinLines(_)
BuiltinLines(i) ==
    IF i > Len(BuiltinRelations) THEN <<>>
    ELSE BuiltinBlock(BuiltinRelations[i]) \o BuiltinLines(i + 1)

\* the text BUILTIN, as lines
BUILTIN == BuiltinLines(1)

\* Ontology.__init__, the fields set before the builtins are read
EmptyOntology ==
    [unhandled_tags |-> <<>>, synonymtypedef |-> <<>>, remark |-> <<>>,
     order |-> <<>>, stanzas |-> <<>>, builtin |-> {}, subsetdef |-> <<>>,
     format_version |-> "1.2", version |-> None, date |-> None,
     saved_by |-> None, auto_generated_by |-> None,
     default_namespace |-> None, builtin_relations |-> {}]

\* Ontology.__init__: read BUILTIN, note the relations it declared, then
\* add the four marker stanzas
NewOntology ==
    LET st == Read([onto |-> EmptyOntology, rd |-> NewOntologyReader,
                    err |-> NoError, warns |-> <<>>],
                   BuiltinSource, BUILTIN, UnhandledTagFail,
                   DeprecatedTagWarn)
        o == [st.onto EXCEPT !.builtin_relations =
                {id \in DOMAIN st.onto.stanzas :
                    st.onto.stanzas[id].source = BuiltinSource}]
    IN  AddBuiltin(AddBuiltin(AddBuiltin(AddBuiltin(o,
            "OBO:TYPE"), "OBO:INSTANCE"), "OBO:TERM"), "OBO:TERM_OR_TYPE")

\* isinstance(stanza, BuiltinStanza)
IsBuiltinStanza(s) == s.kind = "Builtin"

\* Ontology.iter_user_stanzas testing only isinstance(stanza, BuiltinStanza)
iter_user_stanzas_markers_only(o) ==
    SelectSeq(o.order, LAMBDA id : ~IsBuiltinStanza(o.stanzas[id]))

\* Ontology.iter_user_stanzas
iter_user_stanzas(o) ==
    SelectSeq(o.order, LAMBDA id :
        ~(IsBuiltinStanza(o.stanzas[id])
          \/ o.stanzas[id].source = BuiltinSource))

\* Ontology.iterterms
iterterms(o) == SelectSeq(o.order, LAMBDA id : o.stanzas[id].kind = "Term")

\* ------------------------------------------------- reference resolution
\* The state threaded through a resolution: the ontology, the exception
\* raised (NoError when none) and what was written to stderr.

\* DanglingReferenceOption.handle(self, sourced, ref, msg) and its
\* subclasses, called with the arguments args: a call that does not give
\* the three arguments is a TypeError, whatever the option
DanglingHandle(res, option, args, error) ==
    IF Len(args) # 3 THEN Raise(res, TypeError)
    ELSE CASE option = DanglingReferenceFail -> Raise(res, error)
           [] option \in {DanglingReferenceWarn,
                          DanglingReferenceWarnAndIgnore} ->
                  Warning(res, <<args[3], args[2]>>)
           [] OTHER -> res

\* StanzaReference.resolve_reference forgetting the textual target of a
\* reference that names no stanza
resolve_reference_forgetful(res, id, coll, i, rel_object, dangling_reference_option, obsolete_reference_option) ==
    LET ref == res.onto.stanzas[id][coll][i]
        r1 == IF rel_object # None
              THEN [res EXCEPT !.onto.stanzas[id][coll][i].rel_object =
                                   rel_object]
              ELSE res
    IN  IF ref.reference \in DOMAIN r1.onto.stanzas
        THEN LET r2 == [r1 EXCEPT
                          !.onto.stanzas[id][coll][i].reference_object =
                              ref.reference]
             IN  IF obsolete_reference_option # None
                    /\ r2.onto.stanzas[ref.reference].is_obsolete
                 THEN DanglingHandle(r2, obsolete_reference_option,
                          <<"ref", ref.reference, "reference to obsolete ">>,
                          ObsoleteReference)
                 ELSE r2
        ELSE DanglingHandle(
                 [r1 EXCEPT !.onto.stanzas[id][coll][i].reference = None],
                 dangling_reference_option,
                 <<"ref", ref.reference, "reference to unknown ">>,
                 UnknownReference)

\* StanzaReference.resolve_reference, on reference i of the collection
\* coll ("references" or "intersection_of") of stanza id
resolve_reference(res, id, coll, i, rel_object, dangling_reference_option, obsolete_reference_option) ==
    LET ref == res.onto.stanzas[id][coll][i]
        r1 == IF rel_object # None
              THEN [res EXCEPT !.onto.stanzas[id][coll][i].rel_object =
                                   rel_object]
              ELSE res
    IN  IF ref.reference \in DOMAIN r1.onto.stanzas
        THEN LET r2 == [r1 EXCEPT
                          !.onto.stanzas[id][coll][i].reference_object =
                              ref.reference]
             IN  IF obsolete_reference_option # None
                    /\ r2.onto.stanzas[ref.reference].is_obsolete
                 THEN DanglingHandle(r2, obsolete_reference_option,
                          <<"ref", ref.reference, "reference to obsolete ">>,
                          ObsoleteReference)
                 ELSE r2
        ELSE DanglingHandle(r1, dangling_reference_option,
                 <<"ref", ref.reference, "reference to unknown ">>,
                 UnknownReference)

RECURSIVE ResolveRefsUnder(_, _, _, _, _, _, _)
\* for ref in refs: ref.resolve_reference(rt_object, ...), over the
\* references of the collection that carry the label rt, from index i on
ResolveRefsUnder(res, id, coll, rt, i, dopt, oopt) ==
    IF res.err # NoError \/ i > Len(res.onto.stanzas[id][coll]) THEN res
    ELSE IF res.onto.stanzas[id][coll][i].rel # rt
    THEN ResolveRefsUnder(res, id, coll, rt, i + 1, dopt, oopt)
    ELSE ResolveRefsUnder(
             resolve_reference(res, id, coll, i, rt, dopt, oopt),
             id, coll, rt, i + 1, dopt, oopt)

\* Stanza._resolve_relation_references, for one relation label rt, handing
\* a label that names a stanza other than a Typedef to the
\* dangling-reference option
ResolveLabelByPolicy(res, id, coll, rt, dopt, oopt) ==
    IF rt \notin DOMAIN res.onto.stanzas
    THEN DanglingHandle(res, dopt, <<"stanza", rt>>, UnknownReference)
    ELSE IF res.onto.stanzas[rt].kind # "Typedef"
    THEN DanglingHandle(res, dopt, <<"stanza", rt, "not a relation type">>,
                        UnknownReference)
    ELSE ResolveRefsUnder(res, id, coll, rt, 1, dopt, oopt)

\* Stanza._resolve_relation_references, for one relation label rt.  The
\* "not a relation type" OBOException is built with one argument where two
\* are required.
ResolveLabel(res, id, coll, rt, dopt, oopt) ==
    IF rt \notin DOMAIN res.onto.stanzas
    THEN DanglingHandle(res, dopt, <<"stanza", rt>>, UnknownReference)
    ELSE IF res.onto.stanzas[rt].kind # "Typedef"
    THEN Raise(res, TypeError)
    ELSE ResolveRefsUnder(res, id, coll, rt, 1, dopt, oopt)

RECURSIVE ResolveLabels(_, _, _, _, _, _, _)
ResolveLabels(res, id, coll, keys, k, dopt, oopt) ==
    IF res.err # NoError \/ k > Len(keys) THEN res
    ELSE ResolveLabels(ResolveLabel(res, id, coll, keys[k], dopt, oopt),
                       id, coll, keys, k + 1, dopt, oopt)

\* Stanza._resolve_relation_references(c, ...) handing the obsolete-reference
\* option on whether or not the owner is obsolete
resolve_relation_references_always(res, id, coll, dangling_reference_option, obsolete_reference_option) ==
    ResolveLabels(res, id, coll, RelKeys(res.onto.stanzas[id][coll]), 1,
                  dangling_reference_option, obsolete_reference_option)

\* Stanza._resolve_relation_references(c, ...): the labels of c are visited
\* in the order they were first inserted
resolve_relation_references(res, id, coll, dangling_reference_option, obsolete_reference_option) ==
    ResolveLabels(res, id, coll, RelKeys(res.onto.stanzas[id][coll]), 1,
                  dangling_reference_option,
                  IF res.onto.stanzas[id].is_obsolete THEN None
                  ELSE obsolete_reference_option)

\* Synonym.resolve_references, on synonym i of stanza id
synonym_resolve_references(res, id, i, dangling_reference_option) ==
    LET syn == res.onto.stanzas[id].synonyms[i]
    IN  IF syn.type = None THEN res
        ELSE IF syn.type \notin DefNames(res.onto.synonymtypedef)
        THEN DanglingHandle(res, dangling_reference_option,
                            <<"synonym", syn.type>>, UnknownReference)
        ELSE [res EXCEPT !.onto.stanzas[id].synonyms[i].type_object =
                             syn.type]

RECURSIVE ResolveSynonyms(_, _, _, _)
ResolveSynonyms(res, id, i, dopt) ==
    IF res.err # NoError \/ i > Len(res.onto.stanzas[id].synonyms) THEN res
    ELSE ResolveSynonyms(synonym_resolve_references(res, id, i, dopt),
                         id, i + 1, dopt)

\* Stanza.resolve_references
stanza_resolve_references(res, id, dopt, oopt) ==
    LET r == ResolveSynonyms(res, id, 1, dopt)
    IN  IF r.err # NoError THEN r
        ELSE resolve_relation_references(r, id, "references", dopt, oopt)

RECURSIVE SetToSeq(_)
\* the order in which a set is iterated: fixed for a given set
SetToSeq(S) ==
    IF S = {} THEN <<>>
    ELSE LET x == CHOOSE x \in S : TRUE IN <<x>> \o SetToSeq(S \ {x})

RECURSIVE ResolveSubsets(_, _, _, _, _)
ResolveSubsets(res, id, subsets, i, dopt) ==
    IF res.err # NoError \/ i > Len(subsets) THEN res
    ELSE IF subsets[i] \notin DefNames(res.onto.subsetdef)
    THEN ResolveSubsets(
             DanglingHandle(res, dopt, <<"stanza", subsets[i]>>,
                            UnknownReference),
             id, subsets, i + 1, dopt)
    ELSE ResolveSubsets(
             [res EXCEPT !.onto.stanzas[id].subset_objects =
                             Append(@, subsets[i])],
             id, subsets, i + 1, dopt)

\* TermOrType.resolve_references without self.subset_objects = []
termortype_resolve_references_keep(res, id, dopt, oopt) ==
    LET r == stanza_resolve_references(res, id, dopt, oopt)
    IN  IF r.err # NoError THEN r
        ELSE ResolveSubsets(
                 [r EXCEPT !.onto.stanzas[id].has_subset_objects = TRUE],
                 id, SetToSeq(r.onto.stanzas[id].subsets), 1, dopt)

\* TermOrType.resolve_references
termortype_resolve_references(res, id, dopt, oopt) ==
    LET r == stanza_resolve_references(res, id, dopt, oopt)
    IN  IF r.err # NoError THEN r
        ELSE ResolveSubsets(
                 [r EXCEPT !.onto.stanzas[id].has_subset_objects = TRUE,
                           !.onto.stanzas[id].subset_objects = <<>>],
                 id, SetToSeq(r.onto.stanzas[id].subsets), 1, dopt)

\* Term.resolve_references
term_resolve_references(res, id, dopt, oopt) ==
    LET r == termortype_resolve_references(res, id, dopt, oopt)
    IN  IF r.err # NoError THEN r
        ELSE resolve_relation_references(r, id, "intersection_of", dopt, oopt)

\* s.resolve_references(...), by the class of s
ResolveStanza(res, id, dopt, oopt) ==
    LET kind == res.onto.stanzas[id].kind
    IN  CASE kind = "Builtin" -> res
          [] kind = "Term" -> term_resolve_references(res, id, dopt, oopt)
          [] kind = "Typedef" ->
                 termortype_resolve_references(res, id, dopt, oopt)
          [] OTHER -> stanza_resolve_references(res, id, dopt, oopt)

RECURSIVE ResolveAll(_, _, _, _)
ResolveAll(res, i, dopt, oopt) ==
    IF res.err # NoError \/ i > Len(res.onto.order) THEN res
    ELSE ResolveAll(ResolveStanza(res, res.onto.order[i], dopt, oopt),
                    i + 1, dopt, oopt)

\* Ontology.resolve_references
resolve_references(o, dangling_reference_option, obsolete_reference_option) ==
    ResolveAll([onto |-> o, err |-> NoError, warns |-> <<>>], 1,
               dangling_reference_option, obsolete_reference_option)

\* ------------------------------------------------------------- traversal
\* A traversal is a generator: its outcome is what it yielded, in order,
\* and how it ended ("done", or the exception that ended it).
Done == "done"

RECURSIVE ParentsFrom(_, _, _)
ParentsFrom(links, i, items) ==
    IF i > Len(links) THEN [status |-> Done, items |-> items]
    ELSE IF links[i].reference_object = Unset
    THEN [status |-> AttributeError, items |-> items]
    ELSE ParentsFrom(links, i + 1, Append(items, links[i].reference_object))

\* Stanza.parents: reading link.reference_object of a reference that
\* resolution left without one is an AttributeError
parents(o, id, rel) ==
    ParentsFrom(RefsUnder(o.stanzas[id].references, rel), 1, <<>>)

RECURSIVE ChildTest(_, _, _, _)
\* Stanza.children, the inner loop over stanza.parents(): "yield" when a
\* parent is self, "no" when none is, or the exception; p.id.value of a
\* builtin marker, whose id is a plain string, is an AttributeError
ChildTest(o, self, links, i) ==
    IF i > Len(links) THEN "no"
    ELSE IF links[i].reference_object = Unset THEN AttributeError
    ELSE IF IsBuiltinStanza(o.stanzas[links[i].reference_object])
    THEN AttributeError
    ELSE IF o.stanzas[links[i].reference_object].id = o.stanzas[self].id
    THEN "yield"
    ELSE ChildTest(o, self, links, i + 1)

RECURSIVE ChildrenFrom(_, _, _, _)
ChildrenFrom(o, self, i, items) ==
    IF i > Len(o.order) THEN [status |-> Done, items |-> items]
    ELSE IF IsBuiltinStanza(o.stanzas[o.order[i]])
    THEN ChildrenFrom(o, self, i + 1, items)
    ELSE LET t == ChildTest(o, self,
                      RefsUnder(o.stanzas[o.order[i]].references, "is_a"), 1)
         IN  CASE t = "yield" ->
                      ChildrenFrom(o, self, i + 1, Append(items, o.order[i]))
               [] t = "no" -> ChildrenFrom(o, self, i + 1, items)
               [] OTHER -> [status |-> t, items |-> items]

\* Stanza.children: the scan calls stanza.parents() without rel
children(o, id, rel) == ChildrenFrom(o, id, 1, <<>>)

RECURSIVE PathsOf(_, _, _, _, _)
RECURSIVE PathsLinks(_, _, _, _, _, _, _, _)
RECURSIVE PathsExtend(_, _, _, _, _)

RECURSIVE PathsExtendInsert(_, _, _, _, _)
\* the inner loop of Stanza.paths with parent_path.insert(0, self) in the
\* place of parent_path.append(self)
PathsExtendInsert(id, include_self, pp, j, acc) ==
    IF j > Len(pp) THEN [status |-> Done, paths |-> acc, loop |-> <<>>]
    ELSE IF id \in Range(pp[j])
    THEN [status |-> LoopError, paths |-> acc, loop |-> Append(pp[j], id)]
    ELSE PathsExtendInsert(id, include_self, pp, j + 1,
             Append(acc, IF include_self THEN <<id>> \o pp[j] ELSE pp[j]))

RECURSIVE PathsExtendUntested(_, _, _, _, _)
\* the inner loop of Stanza.paths without the test self in parent_path
PathsExtendUntested(id, include_self, pp, j, acc) ==
    IF j > Len(pp) THEN [status |-> Done, paths |-> acc, loop |-> <<>>]
    ELSE PathsExtendUntested(id, include_self, pp, j + 1,
             Append(acc, IF include_self THEN Append(pp[j], id) ELSE pp[j]))

\* the inner loop of Stanza.paths over the paths a parent yields: the loop
\* test, then the append and the yield
PathsExtend(id, include_self, pp, j, acc) ==
    IF j > Len(pp) THEN [status |-> Done, paths |-> acc, loop |-> <<>>]
    ELSE IF id \in Range(pp[j])
    THEN [status |-> LoopError, paths |-> acc, loop |-> Append(pp[j], id)]
    ELSE PathsExtend(id, include_self, pp, j + 1,
             Append(acc, IF include_self THEN Append(pp[j], id) ELSE pp[j]))

\* the outer loop of Stanza.paths over self.references[rel]
PathsLinks(o, id, rel, include_self, depth, links, i, acc) ==
    IF i > Len(links) THEN [status |-> Done, paths |-> acc, loop |-> <<>>]
    ELSE IF links[i].reference_object = Unset
    THEN [status |-> AttributeError, paths |-> acc, loop |-> <<>>]
    ELSE LET sub == PathsOf(o, links[i].reference_object, rel, TRUE,
                            depth + 1)
             ext == PathsExtend(id, include_self, sub.paths, 1, acc)
         IN  IF ext.status # Done THEN ext
             ELSE IF sub.status # Done
             THEN [status |-> sub.status, paths |-> ext.paths,
                   loop |-> sub.loop]
             ELSE PathsLinks(o, id, rel, include_self, depth, links, i + 1,
                             ext.paths)

\* Stanza.paths called on stanza id at recursion depth depth: a builtin
\* marker has no paths method, and the interpreter ends a recursion deeper
\* than RecursionLimit
PathsOf(o, id, rel, include_self, depth) ==
    IF IsBuiltinStanza(o.stanzas[id])
    THEN [status |-> AttributeError, paths |-> <<>>, loop |-> <<>>]
    ELSE IF depth > RecursionLimit
    THEN [status |-> RecursionError, paths |-> <<>>, loop |-> <<>>]
    ELSE LET links == RefsUnder(o.stanzas[id].references, rel)
         IN  IF links # <<>>
             THEN PathsLinks(o, id, rel, include_self, depth, links, 1, <<>>)
             ELSE [status |-> Done,
                   paths |-> IF include_self THEN << <<id>> >> ELSE << <<>> >>,
                   loop |-> <<>>]

\* Stanza.paths
paths(o, id, rel, include_self) == PathsOf(o, id, rel, include_self, 1)

RECURSIVE AncestorsOf(_, _, _, _, _)
RECURSIVE AncestorsLinks(_, _, _, _, _, _, _)

\* the loop of Stanza.ancestors over self.references[rel]: everything the
\* generator of each parent yields is yielded in turn
AncestorsLinks(o, id, rel, depth, links, i, acc) ==
    IF i > Len(links) THEN [status |-> Done, items |-> acc]
    ELSE IF links[i].reference_object = Unset
    THEN [status |-> AttributeError, items |-> acc]
    ELSE LET sub == AncestorsOf(o, links[i].reference_object, rel, TRUE,
                                depth + 1)
         IN  IF sub.status # Done
             THEN [status |-> sub.status, items |-> acc \o sub.items]
             ELSE AncestorsLinks(o, id, rel, depth, links, i + 1,
                                 acc \o sub.items)

\* Stanza.ancestors called on stanza id at recursion depth depth: a builtin
\* marker has no ancestors method, and the interpreter ends a recursion
\* deeper than RecursionLimit
AncestorsOf(o, id, rel, include_self, depth) ==
    IF IsBuiltinStanza(o.stanzas[id])
    THEN [status |-> AttributeError, items |-> <<>>]
    ELSE IF depth > RecursionLimit
    THEN [status |-> RecursionError, items |-> <<>>]
    ELSE AncestorsLinks(o, id, rel, depth,
                        RefsUnder(o.stanzas[id].references, rel), 1,
                        IF include_self THEN <<id>> ELSE <<>>)

\* Stanza.ancestors
ancestors(o, id, rel, include_self) == AncestorsOf(o, id, rel, include_self, 1)

\* ---------------------------------------------------- values as characters
\* A value is here the sequence of its characters.
Backslash == "\\"
Newline == "\n"
CarriageReturn == "\r"
Tab == "\t"

RECURSIVE Replace(_, _, _)
\* str.replace(old, new), old being one character
Replace(s, old, new) ==
    IF s = <<>> THEN <<>>
    ELSE (IF Head(s) = old THEN new ELSE <<Head(s)>>)
             \o Replace(Tail(s), old, new)

\* TagSet._write_obo_triplet, the chain of replace calls on the value, in
\* the order of the source
EscapedValue(value) ==
    LET a == Replace(value, Newline, <<Backslash, "n">>)
        b == Replace(a, CarriageReturn, <<Backslash, "n">>)
        c == Replace(b, Tab, <<Backslash, "t">>)
        d == Replace(c, Backslash, <<Backslash, Backslash>>)
        e == Replace(d, "[", <<Backslash, "[">>)
        f == Replace(e, "]", <<Backslash, "]">>)
        g == Replace(f, "{", <<Backslash, "{">>)
    IN  Replace(g, "}", <<Backslash, "}">>)

\* TagSet._write_obo_triplet on one value that is a string ("text"), True,
\* False or None ("absent"), without quote, scope, dbxrefs or comment: the
\* line it writes is the tag and the text after "tag: "
write_obo_triplet_text(out, pred, kind, value) ==
    IF kind \in {"absent", "false"} THEN out
    ELSE Append(out,
             [tag |-> pred,
              text |-> EscapedValue(IF kind = "true"
                                    THEN <<"t", "r", "u", "e">>
                                    ELSE value)])

RECURSIVE UnescapeFrom(_, _, _, _)
\* unescape, the loop over the characters of s with its flag esc
UnescapeFrom(s, i, esc, l) ==
    IF i > Len(s) THEN l
    ELSE IF esc
    THEN UnescapeFrom(s, i + 1, FALSE,
             Append(l, CASE s[i] = "n" -> Newline
                         [] s[i] = "t" -> Tab
                         [] s[i] = "r" -> CarriageReturn
                         [] OTHER -> s[i]))
    ELSE IF s[i] = Backslash THEN UnescapeFrom(s, i + 1, TRUE, l)
    ELSE UnescapeFrom(s, i + 1, FALSE, Append(l, s[i]))

\* unescape
unescape(s) == UnescapeFrom(s, 1, FALSE, <<>>)

RECURSIVE FreeValueEnd(_, _)
\* the group value of FREE_VALUE_PATTERN, (?:\\.|[^!\[\]])+ : where the
\* greedy match from position i stops
FreeValueEnd(text, i) ==
    IF i > Len(text) THEN i
    ELSE IF text[i] = Backslash /\ i < Len(text)
    THEN FreeValueEnd(text, i + 2)
    ELSE IF text[i] \notin {"!", "[", "]"} THEN FreeValueEnd(text, i + 1)
    ELSE i

\* FREE_VALUE_PATTERN.match on a text without blank and without dbxref
\* list: a value of one character at least, then the end of the text or a
\* comment
FREE_VALUE_PATTERN(text) ==
    LET e == FreeValueEnd(text, 1)
    IN  IF e = 1 \/ (e <= Len(text) /\ text[e] # "!")
        THEN [matched |-> FALSE, value |-> <<>>]
        ELSE [matched |-> TRUE, value |-> SubSeq(text, 1, e - 1)]

\* unescape(get_free_value('name', value)), the first statement of
\* StanzaReader.read_name: the error match_pattern raises, or the name
name_value(text) ==
    LET m == FREE_VALUE_PATTERN(text)
    IN  IF ~m.matched THEN [err |-> OBOInvalidFormat, name |-> <<>>]
        ELSE [err |-> NoError, name |-> unescape(m.value)]

\* -------------------------------------------------------- serialization
\* The writer's output is kept as the lines it writes, each the record the
\* reader's patterns would take it apart into.  The values of the sources
\* modelled here hold none of the characters that unescape and the replace
\* chain of _write_obo_triplet rewrite, so both leave them as they are.

\* TagSet._write_obo_triplet on a value that is not iterable: nothing for
\* None and False, 'true' for True
write_obo_triplet(out, pred, value) ==
    IF value = None THEN out ELSE Append(out, TagLine(pred, value))
write_obo_boolean(out, pred, value) ==
    IF value THEN Append(out, TagLine(pred, "true")) ELSE out

RECURSIVE WriteEach(_, _, _, _)
\* TagSet._write_obo_triplet on a list or a set: one line per element
WriteEach(out, pred, values, i) ==
    IF i > Len(values) THEN out
    ELSE WriteEach(write_obo_triplet(out, pred, values[i]), pred, values,
                   i + 1)

\* Stanza._write_obo_synonyms: text, scope and dbxrefs, not the type
write_obo_synonyms(out, synonyms) ==
    out \o [i \in 1..Len(synonyms) |->
              TagLine4("synonym", synonyms[i].text, synonyms[i].scope, "",
                       IF synonyms[i].dbxrefs = None THEN ""
                       ELSE synonyms[i].dbxrefs)]

\* Stanza._write_obo_xrefs: reference, match and matched, not the
\* description
write_obo_xrefs(out, xref) ==
    out \o [i \in 1..Len(xref) |->
              TagLine4("xref", xref[i].reference, "",
                       IF xref[i].match = None THEN "" ELSE xref[i].match,
                       IF xref[i].matched = None THEN "" ELSE xref[i].matched)]

\* the relation labels of the modelled sources in the order of cmp
CmpOrder ==
    <<"disjoint_from", "domain", "instance_of", "intersection_of",
      "inverse_of", "is_a", "part_of", "range", "regulates",
      "transitive_over", "union_of">>
\* sorted(self.references, cmp=_reference_relation_comparator): is_a first
SortedLabels(refs) ==
    LET keys == Range(RelKeys(refs))
    IN  SelectSeq(<<"is_a">>, LAMBDA k : k \in keys)
        \o SelectSeq(CmpOrder, LAMBDA k : k \in keys /\ k # "is_a")

RECURSIVE WriteRelations(_, _, _, _)
\* Stanza._write_obo_relations, reference i of the sorted references; the
\* comment is the name of the target, and ref.reference_object.name.value
\* of a target without name is an AttributeError
WriteRelations(w, o, refs, i) ==
    IF w.err # NoError \/ i > Len(refs) THEN w
    ELSE LET ref == refs[i]
             target == ref.reference_object
             named == target # Unset /\ ~IsBuiltinStanza(o.stanzas[target])
             line == IF ref.rel \in o.builtin_relations
                     THEN TagLine(ref.rel, ref.reference)
                     ELSE TagLine2("relationship", ref.rel, ref.reference)
         IN  IF named /\ o.stanzas[target].name = None
             THEN [w EXCEPT !.err = AttributeError]
             ELSE WriteRelations([w EXCEPT !.out = Append(@, line)], o, refs,
                                 i + 1)

RECURSIVE RefsByLabel(_, _, _)
RefsByLabel(refs, labels, k) ==
    IF k > Len(labels) THEN <<>>
    ELSE RefsUnder(refs, labels[k]) \o RefsByLabel(refs, labels, k + 1)

write_obo_relations(w, o, s) ==
    WriteRelations(w, o,
                   RefsByLabel(s.references, SortedLabels(s.references), 1), 1)

\* Stanza.write_obo, on [out, err]: Instance has no obo_header method
stanza_write_obo(w, o, id) ==
    LET s == o.stanzas[id]
        a == Append(w.out, HeaderLine(s.kind))
        b == write_obo_triplet(a, "id", s.id)
        c == write_obo_triplet(b, "name", s.name)
        d == WriteEach(c, "alt_id", s.alt_ids, 1)
        e == IF s.definition = None THEN d
             ELSE Append(d, TagLine4("def", s.definition, "", "",
                                     IF s.definition_dbxrefs = None THEN ""
                                     ELSE s.definition_dbxrefs))
        f == WriteEach(e, "subset", SetToSeq(s.subsets), 1)
        g == IF s.flags["is_transitive"] = "true"
             THEN write_obo_boolean(f, "is_transitive", TRUE) ELSE f
        h == write_obo_triplet(g, "comment", s.comment)
        i == write_obo_synonyms(h, s.synonyms)
        j == write_obo_xrefs(i, s.xref)
        k == write_obo_relations([w EXCEPT !.out = j], o, s)
        l == write_obo_boolean(k.out, "is_anonymous", s.is_anonymous)
        m == write_obo_boolean(l, "is_obsolete", s.is_obsolete)
        n == WriteEach(m, "replaced_by", s.replaced_by, 1)
        p == WriteEach(n, "consider", s.consider, 1)
        q == write_obo_triplet(p, "created_by", s.created_by)
        r == write_obo_triplet(q, "creation_date", s.creation_date)
    IN  IF s.kind = "Instance" THEN [w EXCEPT !.err = AttributeError]
        ELSE IF k.err # NoError THEN k
        ELSE [w EXCEPT !.out = r]

\* Ontology.write_obo: the data version goes out under the tag version
ontology_write_obo(out, o) ==
    LET a == write_obo_triplet(out, "format-version", o.format_version)
        b == write_obo_triplet(a, "version", o.version)
        c == write_obo_triplet(b, "date", o.date)
        d == write_obo_triplet(c, "saved-by", o.saved_by)
        e == write_obo_triplet(d, "auto-generated-by", o.auto_generated_by)
        f == e \o [i \in 1..Len(o.subsetdef) |->
                     TagLine2("subsetdef", o.subsetdef[i].name,
                              o.subsetdef[i].description)]
        g == f \o [i \in 1..Len(o.synonymtypedef) |->
                     TagLine4("synonymtypedef", o.synonymtypedef[i].name,
                              o.synonymtypedef[i].description,
                              o.synonymtypedef[i].scope, "")]
        h == write_obo_triplet(g, "default-namespace", o.default_namespace)
    IN  WriteEach(h, "remark", o.remark, 1)

RECURSIVE WriteStanzas(_, _, _, _)
WriteStanzas(w, o, ids, i) ==
    IF w.err # NoError \/ i > Len(ids) THEN w
    ELSE WriteStanzas(stanza_write_obo(w, o, ids[i]), o, ids, i + 1)

\* the header, then every stanza of iter_user_stanzas
Serialize(o) ==
    WriteStanzas([out |-> ontology_write_obo(<<>>, o), err |-> NoError], o,
                 iter_user_stanzas(o), 1)

\* ------------------------------------------------------------ the state
\* onto   the Ontology
\* rd     the OntologyReader of the load (its readers and their options)
\* pc     where the program is: "new" (constructed), "loading", "failed"
\*        (the load raised), "resolved", "resolve_failed", "written",
\*        "reloaded"
\* err    the exception that ended the last operation, NoError when none
\* warns  what the last operation wrote to stderr
\* last   the last line handed to the reader
\* opts   the options resolve_references was called with
\* res    the outcome of the last traversal call
\* out    the lines write_obo wrote
\* onto2  the Ontology a second program loaded from out
VARIABLES onto, rd, pc, err, warns, last, opts, res, out, onto2

vars == <<onto, rd, pc, err, warns, last, opts, res, out, onto2>>

NoLine == Line("none", "", TRUE, "", "", "", "")
NoOpts == [dangling |-> None, obsolete |-> None]
NoRes ==
    [op |-> "none", id |-> None, rel |-> None, include_self |-> FALSE,
     status |-> Done, items |-> <<>>, paths |-> <<>>, loop |-> <<>>]

\* Ontology() and the OntologyReader that load_files creates
Init ==
    /\ onto = NewOntology
    /\ rd = NewOntologyReader
    /\ pc = "new"
    /\ err = NoError
    /\ warns = <<>>
    /\ last = NoLine
    /\ opts = NoOpts
    /\ res = NoRes
    /\ out = <<>>
    /\ onto2 = EmptyOntology

\* Ontology.load_files / load_stdin: OntologyReader.read starts on a source
BeginLoad(source, unhandled_tag_option, deprecated_tag_option) ==
    /\ pc = "new"
    /\ LET st == BeginRead([onto |-> onto, rd |-> rd, err |-> NoError,
                            warns |-> <<>>],
                           source, unhandled_tag_option,
                           deprecated_tag_option)
       IN  /\ rd' = st.rd
           /\ pc' = "loading"
    /\ UNCHANGED <<onto, err, warns, last, opts, res, out, onto2>>

\* OntologyReader.read: the next line of the source goes through the loop
Feed(line) ==
    /\ pc = "loading"
    /\ rd.lineno < MaxLines
    /\ LET st == ReadLine([onto |-> onto, rd |-> rd, err |-> NoError,
                           warns |-> <<>>], line)
       IN  /\ onto' = st.onto
           /\ rd' = st.rd
           /\ err' = st.err
           /\ warns' = st.warns
           /\ pc' = IF st.err = NoError THEN "loading" ELSE "failed"
    /\ last' = line
    /\ UNCHANGED <<opts, res, out, onto2>>

\* Ontology.load_files, the next file name: the same OntologyReader starts
\* reading the next source with the same options
NextSource(source) ==
    /\ pc = "loading"
    /\ source # rd.source
    /\ LET st == BeginRead([onto |-> onto, rd |-> rd, err |-> NoError,
                            warns |-> <<>>],
                           source, rd.unhandled_tag_option,
                           rd.deprecated_tag_option)
       IN  rd' = st.rd
    /\ last' = NoLine
    /\ UNCHANGED <<onto, pc, err, warns, opts, res, out, onto2>>

\* Ontology.resolve_references, once the load has ended
ResolveReferences(dangling_reference_option, obsolete_reference_option) ==
    /\ pc \in {"loading", "loaded"}
    /\ LET r == resolve_references(onto, dangling_reference_option,
                                   obsolete_reference_option)
       IN  /\ onto' = r.onto
           /\ err' = r.err
           /\ warns' = r.warns
           /\ pc' = IF r.err = NoError THEN "resolved" ELSE "resolve_failed"
    /\ opts' = [dangling |-> dangling_reference_option,
                obsolete |-> obsolete_reference_option]
    /\ UNCHANGED <<rd, last, res, out, onto2>>

\* a second call of Ontology.resolve_references with the same options
ResolveAgain ==
    /\ pc = "resolved"
    /\ res.op = "none"
    /\ LET r == resolve_references(onto, opts.dangling, opts.obsolete)
       IN  /\ onto' = r.onto
           /\ err' = r.err
           /\ warns' = r.warns
           /\ pc' = IF r.err = NoError THEN "resolved2" ELSE "resolve_failed"
    /\ UNCHANGED <<rd, last, opts, res, out, onto2>>

\* the stanzas a caller can call a traversal on
UserIds(o) == Range(iter_user_stanzas(o))

\* list(stanza.parents(rel))
CallParents(id, rel) ==
    /\ pc = "resolved"
    /\ id \in UserIds(onto)
    /\ LET r == parents(onto, id, rel)
       IN  res' = [NoRes EXCEPT !.op = "parents", !.id = id, !.rel = rel,
                                !.status = r.status, !.items = r.items]
    /\ UNCHANGED <<onto, rd, pc, err, warns, last, opts, out, onto2>>

\* list(stanza.children(rel))
CallChildren(id, rel) ==
    /\ pc = "resolved"
    /\ id \in UserIds(onto)
    /\ LET r == children(onto, id, rel)
       IN  res' = [NoRes EXCEPT !.op = "children", !.id = id, !.rel = rel,
                                !.status = r.status, !.items = r.items]
    /\ UNCHANGED <<onto, rd, pc, err, warns, last, opts, out, onto2>>

\* list(stanza.paths(rel, include_self))
CallPaths(id, rel, include_self) ==
    /\ pc = "resolved"
    /\ id \in UserIds(onto)
    /\ LET r == paths(onto, id, rel, include_self)
       IN  res' = [NoRes EXCEPT !.op = "paths", !.id = id, !.rel = rel,
                                !.include_self = include_self,
                                !.status = r.status, !.paths = r.paths,
                                !.loop = r.loop]
    /\ UNCHANGED <<onto, rd, pc, err, warns, last, opts, out, onto2>>

\* list(stanza.ancestors(rel, include_self))
CallAncestors(id, rel, include_self) ==
    /\ pc = "resolved"
    /\ id \in UserIds(onto)
    /\ LET r == ancestors(onto, id, rel, include_self)
       IN  res' = [NoRes EXCEPT !.op = "ancestors", !.id = id, !.rel = rel,
                                !.include_self = include_self,
                                !.status = r.status, !.items = r.items]
    /\ UNCHANGED <<onto, rd, pc, err, warns, last, opts, out, onto2>>

\* Stanza.check_required with Instance following the rule of the other
\* kinds as well
stanza_check_required_named(s) ==
    IF IsBuiltinStanza(s) THEN NoError
    ELSE IF s.name = None THEN MissingName
    ELSE IF s.kind = "Instance"
            /\ RefsUnder(s.references, "instance_of") = <<>>
    THEN MissingInstanceOf
    ELSE NoError

\* BuiltinStanza.check_required (pass), Instance.check_required,
\* Stanza.check_required
stanza_check_required(s) ==
    IF IsBuiltinStanza(s) THEN NoError
    ELSE IF s.kind = "Instance"
    THEN IF RefsUnder(s.references, "instance_of") = <<>>
         THEN MissingInstanceOf
         ELSE NoError
    ELSE IF s.name = None THEN MissingName
    ELSE NoError

\* Ontology.check_required: the stanzas are checked in registry order and
\* the first exception ends the call; stanza is the one it was raised on
check_required_outcome(o) ==
    LET bad == SelectSeq(o.order, LAMBDA id :
                   stanza_check_required(o.stanzas[id]) # NoError)
    IN  IF bad = <<>> THEN [err |-> NoError, stanza |-> None]
        ELSE [err |-> stanza_check_required(o.stanzas[bad[1]]),
              stanza |-> bad[1]]

\* Ontology.check_required, as the exception the call ends with
check_required(o) == check_required_outcome(o).err

\* onto.check_required() after the load
CheckRequired ==
    /\ pc \in {"loading", "loaded"}
    /\ LET c == check_required_outcome(onto)
       IN  /\ err' = c.err
           /\ res' = [NoRes EXCEPT !.op = "check_required", !.id = c.stanza]
           /\ pc' = IF c.err = NoError THEN "checked" ELSE "check_failed"
    /\ UNCHANGED <<onto, rd, warns, last, opts, out, onto2>>

\* onto.write_obo(out), then stanza.write_obo(out) for each user stanza
WriteObo ==
    /\ pc \in {"loading", "resolved"}
    /\ res.op = "none"
    /\ LET w == Serialize(onto)
       IN  /\ out' = w.out
           /\ err' = w.err
           /\ pc' = IF w.err = NoError THEN "written" ELSE "write_failed"
    /\ UNCHANGED <<onto, rd, warns, last, opts, res, onto2>>

\* a new Ontology() loads what was written
Reload ==
    /\ pc = "written"
    /\ LET st == Read([onto |-> NewOntology, rd |-> NewOntologyReader,
                       err |-> NoError, warns |-> <<>>],
                      "S2", out, UnhandledTagFail, DeprecatedTagWarn)
       IN  /\ onto2' = st.onto
           /\ err' = st.err
           /\ warns' = st.warns
           /\ pc' = IF st.err = NoError THEN "reloaded" ELSE "reload_failed"
    /\ UNCHANGED <<onto, rd, last, opts, res, out>>

\* ------------------------------------------------- Spec: load and resolve
\* the lines of the sources of Spec
SpecStanzaIds == {"A", "regulates"}
SpecTargets == {"A", "Z:9"}

LoadBegin == \E u \in UnhandledTagOption : BeginLoad("S1", u, DeprecatedTagWarn)
LoadStanzaHeader == \E k \in StanzaKinds : Feed(HeaderLine(k))
LoadId == \E id \in SpecStanzaIds : Feed(TagLine("id", id))
LoadName == Feed(TagLine("name", "n"))
LoadIsA == \E t \in SpecTargets : Feed(TagLine("is_a", t))
LoadRelationship ==
    \E t \in SpecTargets : Feed(TagLine2("relationship", "regulates", t))
LoadUnhandled == Feed(TagLine("foo", "bar"))
Resolve ==
    \E d \in {DanglingReferenceFail, DanglingReferenceWarn,
              DanglingReferenceIgnore} :
        ResolveReferences(d, DanglingReferenceWarn)
Parents == \E id \in SpecStanzaIds : CallParents(id, "is_a")

Next ==
    \/ LoadBegin
    \/ LoadStanzaHeader
    \/ LoadId
    \/ LoadName
    \/ LoadIsA
    \/ LoadRelationship
    \/ LoadUnhandled
    \/ Resolve
    \/ Parents

Spec == Init /\ [][Next]_vars

\* -------------------------------------------- SpecGraph: is_a hierarchies
\* the sources of SpecGraph declare the Terms R, A and B in this order; R
\* has no is_a line, A has up to MaxParents and B up to MaxParentsB, each
\* naming a Term, the builtin marker OBO:TERM or the undeclared id Z:9
GraphTargets == {"R", "A", "B", "OBO:TERM", "Z:9"}
SeqsUpTo(S, n) == UNION {[1..k -> S] : k \in 0..n}
IsALines(targets) == [i \in 1..Len(targets) |-> TagLine("is_a", targets[i])]
GraphSource(pa, pb) ==
    <<HeaderLine("Term"), TagLine("id", "R"), TagLine("name", "n")>>
    \o <<HeaderLine("Term"), TagLine("id", "A"), TagLine("name", "n")>>
    \o IsALines(pa)
    \o <<HeaderLine("Term"), TagLine("id", "B"), TagLine("name", "n")>>
    \o IsALines(pb)

\* Ontology() followed by load_files on one such source
InitGraph ==
    \E pa \in SeqsUpTo(GraphTargets, MaxParents),
       pb \in SeqsUpTo(GraphTargets, MaxParentsB) :
        LET src == GraphSource(pa, pb)
            st == Read([onto |-> NewOntology, rd |-> NewOntologyReader,
                        err |-> NoError, warns |-> <<>>],
                       "S1", src, UnhandledTagFail, DeprecatedTagWarn)
        IN  /\ onto = st.onto
            /\ rd = st.rd
            /\ err = st.err
            /\ warns = st.warns
            /\ last = src[Len(src)]
            /\ pc = "loaded"
            /\ opts = NoOpts
            /\ res = NoRes
            /\ out = <<>>
            /\ onto2 = EmptyOntology

GraphResolve ==
    \E d \in {DanglingReferenceFail, DanglingReferenceWarn} :
        ResolveReferences(d, DanglingReferenceWarn)
GraphParents == \E id \in {"R", "A", "B"} : CallParents(id, "is_a")
GraphChildren == \E id \in {"R", "A", "B"} : CallChildren(id, "is_a")
GraphPaths ==
    \E id \in {"R", "A", "B"}, include_self \in BOOLEAN :
        CallPaths(id, "is_a", include_self)
GraphAncestors ==
    \E id \in {"R", "A", "B"}, include_self \in BOOLEAN :
        CallAncestors(id, "is_a", include_self)

NextGraph ==
    \/ GraphResolve
    \/ GraphParents
    \/ GraphChildren
    \/ GraphPaths
    \/ GraphAncestors

SpecGraph == InitGraph /\ [][NextGraph]_vars

\* ------------------------------ SpecRel: is_a and part_of links together
\* the sources of SpecRel declare the Typedef part_of and the Terms X and
\* Y; each Term has up to MaxParentsB and MaxParents lines, an is_a or a
\* relationship: part_of, naming X or Y
RelLines ==
    {TagLine("is_a", "X"), TagLine("is_a", "Y"),
     TagLine2("relationship", "part_of", "X"),
     TagLine2("relationship", "part_of", "Y")}
RelSource(lx, ly) ==
    <<HeaderLine("Typedef"), TagLine("id", "part_of"), TagLine("name", "p")>>
    \o <<HeaderLine("Term"), TagLine("id", "X"), TagLine("name", "n")>> \o lx
    \o <<HeaderLine("Term"), TagLine("id", "Y"), TagLine("name", "n")>> \o ly

\* Ontology() followed by load_files on one such source
InitRel ==
    \E lx \in SeqsUpTo(RelLines, MaxParentsB),
       ly \in SeqsUpTo(RelLines, MaxParents) :
        LET src == RelSource(lx, ly)
            st == Read([onto |-> NewOntology, rd |-> NewOntologyReader,
                        err |-> NoError, warns |-> <<>>],
                       "S1", src, UnhandledTagFail, DeprecatedTagWarn)
        IN  /\ onto = st.onto
            /\ rd = st.rd
            /\ err = st.err
            /\ warns = st.warns
            /\ last = src[Len(src)]
            /\ pc = "loaded"
            /\ opts = NoOpts
            /\ res = NoRes
            /\ out = <<>>
            /\ onto2 = EmptyOntology

RelResolve == ResolveReferences(DanglingReferenceFail, DanglingReferenceWarn)
RelParents ==
    \E id \in {"X", "Y"}, rel \in {"is_a", "part_of"} : CallParents(id, rel)
RelChildren ==
    \E id \in {"X", "Y"}, rel \in {"is_a", "part_of"} : CallChildren(id, rel)

NextRel ==
    \/ RelResolve
    \/ RelParents
    \/ RelChildren

SpecRel == InitRel /\ [][NextRel]_vars

\* --------------------- SpecSyntax: lines that are neither header nor tag
SyntaxBegin ==
    \E u \in UnhandledTagOption, d \in DeprecatedTagOption :
        BeginLoad("S1", u, d)
SyntaxStanzaHeader == \E k \in {"Term", "Typedef"} : Feed(HeaderLine(k))
SyntaxUnknownHeader == Feed(HeaderLine("Foo"))
SyntaxId == Feed(TagLine("id", "A"))
SyntaxName == Feed(TagLine("name", "n"))
SyntaxBlank == Feed(Line("blank", "", TRUE, "", "", "", ""))
SyntaxComment == Feed(Line("comment", "", TRUE, "", "", "", ""))
SyntaxGarbage == Feed(Line("garbage", "", TRUE, "", "", "", ""))

NextSyntax ==
    \/ SyntaxBegin
    \/ SyntaxStanzaHeader
    \/ SyntaxUnknownHeader
    \/ SyntaxId
    \/ SyntaxName
    \/ SyntaxBlank
    \/ SyntaxComment
    \/ SyntaxGarbage

SpecSyntax == Init /\ [][NextSyntax]_vars

\* ------------------------------ SpecRaise: tag lines that a reader rejects
RaiseBegin == BeginLoad("S1", UnhandledTagWarn, DeprecatedTagWarn)
RaiseSubsetdef == Feed(TagLine2("subsetdef", "S", "d"))
RaiseStanzaHeader == \E k \in {"Term", "Typedef"} : Feed(HeaderLine(k))
RaiseId == \E id \in {"A", "is_a", "OBO:TERM"} : Feed(TagLine("id", id))
RaiseName == Feed(TagLine("name", "n"))
RaiseDef == Feed(TagLine2("def", "x", ""))
RaiseComment == Feed(TagLine("comment", "c"))
RaiseSubset == Feed(TagLine("subset", "S"))
RaiseSynonym == Feed(TagLine4("synonym", "s", "", "T", ""))
RaiseMalformed == \E tag \in {"id", "name", "def"} : Feed(BadLine(tag))

NextRaise ==
    \/ RaiseBegin
    \/ RaiseSubsetdef
    \/ RaiseStanzaHeader
    \/ RaiseId
    \/ RaiseName
    \/ RaiseDef
    \/ RaiseComment
    \/ RaiseSubset
    \/ RaiseSynonym
    \/ RaiseMalformed

SpecRaise == Init /\ [][NextRaise]_vars

\* ----------------------------- SpecEscape: one value, written or read
\* the characters of a value that is written and of a text that is read
MaxChars == 3
WriteChars == {"a", "n", Backslash, Newline, Tab, "["}
ReadChars == {"a", "n", Backslash}

\* a value to write (a string, True, False or None) or, when it is a
\* string of ReadChars, the text of a name line to read
InitEscape ==
    /\ onto = NewOntology
    /\ rd = NewOntologyReader
    /\ pc = "value"
    /\ err = NoError
    /\ warns = <<>>
    /\ last = NoLine
    /\ opts = NoOpts
    /\ \/ \E value \in SeqsUpTo(WriteChars, MaxChars) :
             res = [NoRes EXCEPT !.op = "text", !.items = value]
       \/ \E kind \in {"true", "false", "absent"} :
             res = [NoRes EXCEPT !.op = kind]
    /\ out = <<>>
    /\ onto2 = EmptyOntology

\* self._write_obo_triplet(out, 'name', value)
WriteValue ==
    /\ pc = "value"
    /\ out' = write_obo_triplet_text(out, "name", res.op, res.items)
    /\ pc' = "written"
    /\ UNCHANGED <<onto, rd, err, warns, last, opts, res, onto2>>

\* read_name on a line "name: text"
ReadValue ==
    /\ pc = "value"
    /\ res.op = "text"
    /\ Range(res.items) \subseteq ReadChars
    /\ LET r == name_value(res.items)
       IN  /\ err' = r.err
           /\ out' = <<r.name>>
    /\ pc' = "read"
    /\ UNCHANGED <<onto, rd, warns, last, opts, res, onto2>>

NextEscape ==
    \/ WriteValue
    \/ ReadValue

SpecEscape == InitEscape /\ [][NextEscape]_vars

\* ------------------------------- SpecMeta: metadata, resolve twice, write
MetaBegin == BeginLoad("S1", UnhandledTagFail, DeprecatedTagWarn)
MetaDataVersion == Feed(TagLine("data-version", "v1"))
MetaDefaultNamespace == Feed(TagLine("default-namespace", "ns"))
MetaSubsetdef == Feed(TagLine2("subsetdef", "S", "d"))
MetaSynonymtypedef == Feed(TagLine4("synonymtypedef", "T", "d", "EXACT", ""))
MetaStanzaHeader == \E k \in {"Term", "Typedef"} : Feed(HeaderLine(k))
MetaId == Feed(TagLine("id", "A"))
MetaName == Feed(TagLine("name", "n"))
MetaNamespace == Feed(TagLine("namespace", "ns2"))
MetaSubset == Feed(TagLine("subset", "S"))
MetaSynonym ==
    \E type \in {"", "T"} : Feed(TagLine4("synonym", "s", "", type, ""))
MetaIsA == \E t \in {"A", "Z:9"} : Feed(TagLine("is_a", t))
MetaFlag ==
    \E f \in {"is_cyclic", "is_transitive"} : Feed(TagLine(f, "true"))
MetaResolve ==
    ResolveReferences(DanglingReferenceWarn, DanglingReferenceWarn)

NextMeta ==
    \/ MetaBegin
    \/ MetaDataVersion
    \/ MetaDefaultNamespace
    \/ MetaSubsetdef
    \/ MetaSynonymtypedef
    \/ MetaStanzaHeader
    \/ MetaId
    \/ MetaName
    \/ MetaNamespace
    \/ MetaSubset
    \/ MetaSynonym
    \/ MetaIsA
    \/ MetaFlag
    \/ MetaResolve
    \/ ResolveAgain
    \/ WriteObo
    \/ Reload

SpecMeta == Init /\ [][NextMeta]_vars

\* ------------------------------------- SpecSynonym: synonyms, old spellings
\* the values of the synonym tags of the sources of SpecSynonym: T is
\* declared with scope EXACT, U without a scope, V is never declared
SynonymTypes == {"T", "U", "V"}
SynonymValues ==
    {<<Quoted("foo"), Word("EXACT"), DbXRefList("")>>,
     <<Quoted("foo"), Word("EXACT")>>,
     <<Quoted("foo"), DbXRefList("")>>}
    \cup {<<Quoted("foo"), Word(t), DbXRefList("")>> : t \in SynonymTypes}
    \cup {<<Quoted("foo"), Word("BROAD"), Word(t), DbXRefList("")>> :
              t \in SynonymTypes}
    \cup {<<Word("foo"), DbXRefList("")>>}

\* the deprecated spellings and the scope each stands for
DeprecatedSynonymScope ==
    [exact_synonym |-> "EXACT", narrow_synonym |-> "NARROW",
     related_synonym |-> "RELATED", broad_synonym |-> "BROAD"]
DeprecatedSynonymTags == DOMAIN DeprecatedSynonymScope
DeprecatedXRefTags == {"xref_analog", "xref_unk"}

SynBegin ==
    \E d \in DeprecatedTagOption : BeginLoad("S1", UnhandledTagFail, d)
SynTypedef ==
    \/ Feed(TagLine4("synonymtypedef", "T", "d", "EXACT", ""))
    \/ Feed(TagLine4("synonymtypedef", "U", "d", "", ""))
SynStanzaHeader == \E k \in {"Term", "Typedef"} : Feed(HeaderLine(k))
SynId == Feed(TagLine("id", "A"))
SynSynonym == \E toks \in SynonymValues : Feed(SYNONYM_PATTERN(toks))
SynDeprecatedSynonym ==
    \E tag \in DeprecatedSynonymTags :
        \E toks \in {<<Quoted("s"), DbXRefList("")>>,
                     <<Quoted("s"), Word("T"), DbXRefList("")>>} :
            Feed(DEPRECATED_SYNONYM_PATTERN(tag, toks))
SynDeprecatedXRef ==
    \E tag \in DeprecatedXRefTags : Feed(TagLine(tag, "X:1"))
SynUseTerm == Feed(TagLine("use_term", "B"))

NextSynonym ==
    \/ SynBegin
    \/ SynTypedef
    \/ SynStanzaHeader
    \/ SynId
    \/ SynSynonym
    \/ SynDeprecatedSynonym
    \/ SynDeprecatedXRef
    \/ SynUseTerm

SpecSynonym == Init /\ [][NextSynonym]_vars

\* ------------------------------ SpecBlocks: stanza blocks over two sources
\* what load_files has read when SpecBlocks starts: the whole of S1
FirstSources ==
    {<<HeaderLine("Term"), TagLine("id", "A"), TagLine("name", "n"),
       TagLine2("def", "x", ""), TagLine("comment", "c")>>,
     <<HeaderLine("Term"), TagLine("id", "A"), TagLine("alt_id", "X"),
       TagLine("is_a", "B"), TagLine("consider", "C")>>,
     <<HeaderLine("Term"), TagLine("id", "B"), HeaderLine("Typedef"),
       TagLine("id", "A"), TagLine("alt_id", "X")>>,
     <<HeaderLine("Term"), TagLine("id", "A"), HeaderLine("Term"),
       TagLine("id", "B")>>}

\* Ontology(), then load_files has read S1
InitBlocks ==
    \E src \in FirstSources :
        LET st == Read([onto |-> NewOntology, rd |-> NewOntologyReader,
                        err |-> NoError, warns |-> <<>>],
                       "S1", src, UnhandledTagWarn, DeprecatedTagWarn)
        IN  /\ onto = st.onto
            /\ rd = st.rd
            /\ err = st.err
            /\ warns = st.warns
            /\ last = src[Len(src)]
            /\ pc = "loading"
            /\ opts = NoOpts
            /\ res = NoRes
            /\ out = <<>>
            /\ onto2 = EmptyOntology

BlockIds == {"A", "B", "is_a", "OBO:TERM"}

BlockNextSource == NextSource("S2")
BlockStanzaHeader == \E k \in {"Term", "Typedef"} : Feed(HeaderLine(k))
BlockId == \E id \in BlockIds : Feed(TagLine("id", id))
BlockName == \E n \in {"n", "m"} : Feed(TagLine("name", n))
BlockDef == \E d \in {"x", "y"} : Feed(TagLine2("def", d, ""))
BlockComment == Feed(TagLine("comment", "c"))
BlockAltId == Feed(TagLine("alt_id", "Y"))
BlockIsA == Feed(TagLine("is_a", "A"))
BlockUnhandled == Feed(TagLine("foo", "bar"))

NextBlocks ==
    \/ BlockNextSource
    \/ BlockStanzaHeader
    \/ BlockId
    \/ BlockName
    \/ BlockDef
    \/ BlockComment
    \/ BlockAltId
    \/ BlockIsA
    \/ BlockUnhandled

SpecBlocks == InitBlocks /\ [][NextBlocks]_vars

\* --------------------- SpecDocs: required tags, obsolete stanzas, resolve
\* one stanza of a source of SpecDocs: its name, its is_obsolete flag and
\* its one reference (instance_of for an Instance, is_a otherwise) are
\* each present or not
DocStanza(kind, id, named, obsolete, target) ==
    <<HeaderLine(kind), TagLine("id", id)>>
    \o (IF named THEN <<TagLine("name", "n")>> ELSE <<>>)
    \o (IF obsolete THEN <<TagLine("is_obsolete", "true")>> ELSE <<>>)
    \o (IF target = "" THEN <<>>
        ELSE <<TagLine(IF kind = "Instance" THEN "instance_of" ELSE "is_a",
                       target)>>)

\* Ontology(), then load_files on a source declaring A (a Term or an
\* Instance) and then B (a Term or a Typedef)
InitDocs ==
    \E ka \in {"Term", "Instance"}, na \in BOOLEAN, oa \in BOOLEAN,
       ta \in {"", "B", "Z:9"}, kb \in {"Term", "Typedef"},
       nb \in BOOLEAN, ob \in BOOLEAN, tb \in {"", "A", "Z:9"} :
        LET src == DocStanza(ka, "A", na, oa, ta)
                       \o DocStanza(kb, "B", nb, ob, tb)
            st == Read([onto |-> NewOntology, rd |-> NewOntologyReader,
                        err |-> NoError, warns |-> <<>>],
                       "S1", src, UnhandledTagFail, DeprecatedTagWarn)
        IN  /\ onto = st.onto
            /\ rd = st.rd
            /\ err = st.err
            /\ warns = st.warns
            /\ last = src[Len(src)]
            /\ pc = "loaded"
            /\ opts = NoOpts
            /\ res = NoRes
            /\ out = <<>>
            /\ onto2 = EmptyOntology

DocsResolve ==
    \E d \in {DanglingReferenceFail, DanglingReferenceWarn},
       o \in {DanglingReferenceFail, DanglingReferenceWarn,
              DanglingReferenceIgnore} :
        ResolveReferences(d, o)

NextDocs ==
    \/ CheckRequired
    \/ DocsResolve

SpecDocs == InitDocs /\ [][NextDocs]_vars

\* ------------------------------------------------ properties under Spec
\* the is_a references of stanza id, and those whose target is declared
IsARefs(o, id) == RefsUnder(o.stanzas[id].references, "is_a")
DeclaredIsATargets(o, id) ==
    LET declared == SelectSeq(IsARefs(o, id),
                              LAMBDA r : r.reference \in DOMAIN o.stanzas)
    IN  [i \in 1..Len(declared) |-> declared[i].reference]
HasDanglingIsA(o) ==
    \E id \in UserIds(o) : \E i \in 1..Len(IsARefs(o, id)) :
        IsARefs(o, id)[i].reference \notin DOMAIN o.stanzas

\* the references under a relationship label that no stanza declares
DanglingLabelRefs(o, id) ==
    SelectSeq(o.stanzas[id].references,
              LAMBDA r : r.rel \notin DOMAIN o.stanzas)
HasDanglingLabel(o) ==
    \E id \in UserIds(o) : DanglingLabelRefs(o, id) # <<>>
\* every label that is declared is declared by a Typedef
LabelsAreTypedefs(o) ==
    \A id \in UserIds(o) : \A i \in 1..Len(o.stanzas[id].references) :
        LET rt == o.stanzas[id].references[i].rel
        IN  rt \in DOMAIN o.stanzas => o.stanzas[rt].kind = "Typedef"

\* C3: an is_a reference to an undeclared id makes resolution raise under
\* the fail policy; under the warn policy resolution completes and
\* parents() of the stanza completes, yielding the declared parents of its
\* other is_a references.
C3_DanglingIsATarget ==
    /\ (pc \in {"resolved", "resolve_failed"}
        /\ opts.dangling = DanglingReferenceFail /\ HasDanglingIsA(onto))
           => (pc = "resolve_failed" /\ err # NoError)
    /\ (pc \in {"resolved", "resolve_failed"}
        /\ opts.dangling = DanglingReferenceWarn
        /\ HasDanglingIsA(onto) /\ ~HasDanglingLabel(onto)
        /\ LabelsAreTypedefs(onto))
           => (pc = "resolved" /\ err = NoError)
    /\ (pc = "resolved" /\ opts.dangling = DanglingReferenceWarn
        /\ res.op = "parents" /\ res.rel = "is_a")
           => (res.status = Done
               /\ res.items = DeclaredIsATargets(onto, res.id))

\* C4: a reference under a relationship label that no stanza declares makes
\* resolution raise under the fail policy; under the warn and ignore
\* policies resolution completes and those references carry no relation
\* object.
C4_DanglingLabel ==
    (pc \in {"resolved", "resolve_failed"}
     /\ HasDanglingLabel(onto) /\ LabelsAreTypedefs(onto))
        => /\ opts.dangling = DanglingReferenceFail => err # NoError
           /\ opts.dangling \in {DanglingReferenceWarn,
                                 DanglingReferenceIgnore}
                 => /\ err = NoError
                    /\ \A id \in UserIds(onto) :
                         \A i \in 1..Len(DanglingLabelRefs(onto, id)) :
                           DanglingLabelRefs(onto, id)[i].rel_object
                               \in {Unset, None}


\* C27: a relation label that is the id of a registered stanza other than
\* a Typedef makes resolve_references end with an error under every
\* dangling-reference policy, warn and ignore included; the policy is
\* consulted for a label only when no stanza has the label as id.
C27_NonTypedefLabelFatal ==
    (pc \in {"resolved", "resolve_failed"} /\ ~LabelsAreTypedefs(onto))
        => (pc = "resolve_failed" /\ err # NoError)

\* resolution under the ignore policy ended on the label of a relationship
\* that names a Term
C27_Witness ==
    /\ pc = "resolve_failed"
    /\ opts.dangling = DanglingReferenceIgnore
    /\ ~LabelsAreTypedefs(onto)
    /\ ~HasDanglingIsA(onto)
    /\ err = TypeError


\* a list of references without the objects resolution attached
StripReferences(refs) ==
    [i \in 1..Len(refs) |->
        [refs[i] EXCEPT !.rel_object = Unset, !.reference_object = Unset]]

\* a stanza without anything resolution attached to it, to its references
\* or to its synonyms
StripStanza(s) ==
    [s EXCEPT !.references = StripReferences(@),
              !.intersection_of = StripReferences(@),
              !.synonyms = [i \in 1..Len(@) |->
                               [@[i] EXCEPT !.type_object = Unset]],
              !.has_subset_objects = FALSE,
              !.subset_objects = <<>>]

\* the ontology without anything resolution attached
StripHandles(o) ==
    [o EXCEPT !.stanzas = [id \in DOMAIN @ |-> StripStanza(@[id])]]

\* a call of resolve_references, whether it returned or raised
ResolveStep ==
    /\ pc \in {"loading", "loaded"}
    /\ pc' \in {"resolved", "resolve_failed"}

\* C30: resolve_references, whether it completes or raises, only attaches
\* resolved objects: the registry keeps its stanzas and their order, every
\* reference keeps its relation label, its textual target and its place
\* under its label, and every other tag of every stanza and every header
\* field keeps its value.
C30_ResolveOnlyAttaches ==
    [][ResolveStep => StripHandles(onto') = StripHandles(onto)]_vars

\* resolution raised after it had attached an object to a reference
C30_Witness ==
    /\ pc = "resolve_failed"
    /\ \E id \in UserIds(onto) :
         \E i \in 1..Len(onto.stanzas[id].references) :
             onto.stanzas[id].references[i].reference_object # Unset

\* the step hands an id line to a stanza reader that has no stanza yet, and
\* the id is registered, not reserved, under another stanza type
TypeClashStep ==
    /\ pc = "loading"
    /\ rd'.lineno = rd.lineno + 1
    /\ last'.k = "tag" /\ last'.tag = "id" /\ last'.wf
    /\ rd.current \in StanzaKinds
    /\ rd.stanza[rd.current] = None
    /\ last'.v \in DOMAIN onto.stanzas
    /\ last'.v \notin onto.builtin
    /\ onto.stanzas[last'.v].kind # rd.current

\* C7: a stanza block that declares an id already registered under another
\* stanza type is rejected with an error, and the registry keeps the first
\* stanza with its type and provenance.
C7_TypeClashRejected ==
    [][TypeClashStep =>
          (err' = DifferentTypes /\ pc' = "failed" /\ onto' = onto)]_vars

C7_Witness ==
    /\ pc = "failed"
    /\ err = DifferentTypes
    /\ last.tag = "id"
    /\ last.v \in UserIds(onto)
    /\ onto.stanzas[last.v].kind # rd.current

\* the reader that took the last line had a tag set to attach the tag to
LastLineUnhandled ==
    /\ pc \in {"loading", "failed"}
    /\ last.k = "tag" /\ last.tag = "foo"
    /\ (rd.current = "Header" \/ rd.stanza[rd.current] # None)
LastTagSetUnhandled ==
    IF rd.current = "Header" THEN onto.unhandled_tags
    ELSE onto.stanzas[rd.stanza[rd.current]].unhandled_tags

\* C10: a tag the reader has no handler for is treated as the unhandled-tag
\* policy of the load says: fail aborts the load, record and warn-and-record
\* append the tag to the unhandled tags of the stanza or header being read,
\* warn and warn-and-record write a warning, ignore does nothing.
C10_UnhandledTagPolicy ==
    LastLineUnhandled =>
        LET opt == rd.unhandled_tag_option
        IN  /\ opt = UnhandledTagFail => (pc = "failed" /\ err # NoError)
            /\ opt \in {UnhandledTagRecord, UnhadledTagWarnAndRecord}
                  => (LastTagSetUnhandled # <<>>
                      /\ LastTagSetUnhandled[Len(LastTagSetUnhandled)]
                             = <<last.tag, last.v>>)
            /\ opt = UnhadledTagWarnAndRecord => warns # <<>>
            /\ opt \in {UnhandledTagWarn, UnhandledTagIgnore}
                  => (pc = "loading" /\ err = NoError
                      /\ LastTagSetUnhandled = <<>>)

\* ------------------------------------------- properties under SpecGraph
\* the stanzas that the is_a references of x resolved to
IsAParents(o, x) ==
    IF IsBuiltinStanza(o.stanzas[x]) THEN {}
    ELSE {r.reference_object : r \in Range(IsARefs(o, x))} \ {Unset}

RECURSIVE ReachFrom(_, _, _)
ReachFrom(o, frontier, seen) ==
    IF frontier \subseteq seen THEN seen
    ELSE ReachFrom(o, UNION {IsAParents(o, x) : x \in frontier},
                   seen \cup frontier)
IsAAncestors(o, x) == ReachFrom(o, IsAParents(o, x), {})

\* no stanza is its own is_a ancestor
Acyclic(o) == \A x \in DOMAIN o.stanzas : x \notin IsAAncestors(o, x)
\* every reference of every user stanza has its target attached
FullyResolved(o) ==
    \A x \in UserIds(o) : \A i \in 1..Len(o.stanzas[x].references) :
        o.stanzas[x].references[i].reference_object # Unset
\* no is_a reference resolved to a builtin marker
NoMarkerParent(o) ==
    \A x \in UserIds(o) : \A y \in IsAParents(o, x) :
        ~IsBuiltinStanza(o.stanzas[y])
HasIsAParent(o, x) ==
    ~IsBuiltinStanza(o.stanzas[x]) /\ IsARefs(o, x) # <<>>

\* C1: on an ontology whose resolved is_a references hold a cycle
\* A -> B -> A (B may be A itself), paths(is_a) on A ends with the loop
\* error, and the error names A and B; it does not recurse without bound.
C1_CycleReported ==
    (pc = "resolved" /\ res.op = "paths" /\ res.rel = "is_a"
     /\ FullyResolved(onto) /\ NoMarkerParent(onto)
     /\ \E b \in IsAParents(onto, res.id) : res.id \in IsAParents(onto, b))
        => /\ res.status = LoopError
           /\ \E b \in IsAParents(onto, res.id) :
                 /\ res.id \in IsAParents(onto, b)
                 /\ {res.id, b} \subseteq Range(res.loop)

\* C2: on a fully resolved ontology without is_a cycle,
\* paths(is_a, include_self=True) on any user stanza ends (it returns, or
\* raises when an is_a parent is a builtin marker, but never runs into the
\* recursion limit or the loop error), and the first stanza of every path it
\* yields has no is_a reference.
C2_AcyclicPathsEnd ==
    (pc = "resolved" /\ res.op = "paths" /\ res.rel = "is_a"
     /\ res.include_self /\ FullyResolved(onto) /\ Acyclic(onto))
        => /\ res.status \in {Done, AttributeError}
           /\ \A i \in 1..Len(res.paths) :
                 /\ res.paths[i] # <<>>
                 /\ ~HasIsAParent(onto, res.paths[i][1])

\* two routes to A, one of them through B
C2_Witness ==
    /\ pc = "resolved" /\ res.op = "paths" /\ res.rel = "is_a"
    /\ res.include_self /\ FullyResolved(onto) /\ Acyclic(onto)
    /\ res.status = Done
    /\ res.paths = << <<"R", "B", "A">>, <<"R", "A">> >>

\* what children() is claimed to yield for x: the user stanzas, in registry
\* order, whose parents() yields x
ClaimedChildren(o, x) ==
    SelectSeq(iter_user_stanzas(o),
              LAMBDA y : x \in Range(parents(o, y, "is_a").items))

\* C8: after a resolution in which every is_a target resolved, X.children()
\* yields, once each and in registry order, exactly the stanzas Y whose
\* parents() yields X, and never a builtin marker.
C8_ChildrenInverse ==
    (pc = "resolved" /\ res.op = "children" /\ FullyResolved(onto))
        => /\ res.status = Done
           /\ res.items = ClaimedChildren(onto, res.id)

RECURSIVE Routes(_, _)
\* the routes from a stanza without is_a reference to x, one per choice of
\* a reference at each step, root first and x last
Routes(o, x) ==
    LET links == IF IsBuiltinStanza(o.stanzas[x]) THEN <<>>
                 ELSE IsARefs(o, x)
        RECURSIVE Over(_)
        Over(i) ==
            IF i > Len(links) THEN <<>>
            ELSE LET up == Routes(o, links[i].reference_object)
                 IN  [j \in 1..Len(up) |-> Append(up[j], x)] \o Over(i + 1)
    IN  IF links = <<>> THEN << <<x>> >> ELSE Over(1)
RoutesTo(o, x, include_self) ==
    LET rs == Routes(o, x)
    IN  IF include_self THEN rs
        ELSE [j \in 1..Len(rs) |-> SubSeq(rs[j], 1, Len(rs[j]) - 1)]

\* C9: on an acyclic resolved ontology, paths(is_a, include_self) on X
\* returns one path per route from a stanza without parent to X, root first
\* and X last (left out when include_self is false); a stanza without
\* parent gets the single path [X] (or the single empty path).
C9_PathsAreRoutes ==
    (pc = "resolved" /\ res.op = "paths" /\ res.rel = "is_a"
     /\ FullyResolved(onto) /\ Acyclic(onto))
        => /\ res.status = Done
           /\ res.paths = RoutesTo(onto, res.id, res.include_self)

\* -------------------------------------------- properties under SpecMeta
\* C5: a second resolve_references with the same options on a resolved
\* ontology completes and leaves the ontology as the first run left it:
\* the targets and relation objects of the references, the type objects of
\* the synonyms and the subset objects are the same.
C5_ResolveIdempotent ==
    [][(pc = "resolved" /\ pc' \in {"resolved2", "resolve_failed"})
          => (pc' = "resolved2" /\ err' = NoError /\ onto' = onto)]_vars

\* resolved twice, with a subset object, a synonym type or a target attached
C5_Witness ==
    /\ pc = "resolved2"
    /\ \E id \in UserIds(onto) :
          /\ onto.stanzas[id].subset_objects # <<>>
          /\ onto.stanzas[id].has_subset_objects

\* what a stanza holds, without the place it was read at and without what
\* resolution attached
ReferenceView(refs) ==
    [rt \in Range(RelKeys(refs)) |->
        LET under == RefsUnder(refs, rt)
        IN  [i \in 1..Len(under) |->
               [reference |-> under[i].reference, value |-> under[i].value]]]
StanzaView(s) ==
    [kind |-> s.kind, id |-> s.id, name |-> s.name, alt_ids |-> s.alt_ids,
     definition |-> s.definition,
     definition_dbxrefs |-> s.definition_dbxrefs,
     subsets |-> s.subsets, flags |-> s.flags, comment |-> s.comment,
     synonyms |-> [i \in 1..Len(s.synonyms) |->
                     [text |-> s.synonyms[i].text,
                      scope |-> s.synonyms[i].scope,
                      type |-> s.synonyms[i].type,
                      dbxrefs |-> s.synonyms[i].dbxrefs]],
     xref |-> [i \in 1..Len(s.xref) |->
                 [reference |-> s.xref[i].reference,
                  description |-> s.xref[i].description,
                  match |-> s.xref[i].match,
                  matched |-> s.xref[i].matched]],
     references |-> ReferenceView(s.references),
     intersection_of |-> ReferenceView(s.intersection_of),
     is_anonymous |-> s.is_anonymous, is_obsolete |-> s.is_obsolete,
     replaced_by |-> s.replaced_by, consider |-> s.consider,
     created_by |-> s.created_by, creation_date |-> s.creation_date,
     namespace |-> s.namespace]
HeaderView(o) ==
    [format_version |-> o.format_version, version |-> o.version,
     date |-> o.date, saved_by |-> o.saved_by,
     auto_generated_by |-> o.auto_generated_by,
     default_namespace |-> o.default_namespace, remark |-> o.remark,
     subsetdef |-> [i \in 1..Len(o.subsetdef) |->
                      <<o.subsetdef[i].name, o.subsetdef[i].description>>],
     synonymtypedef |-> [i \in 1..Len(o.synonymtypedef) |->
                           <<o.synonymtypedef[i].name,
                             o.synonymtypedef[i].description,
                             o.synonymtypedef[i].scope>>]]
ModelView(o) ==
    [header |-> HeaderView(o),
     stanzas |-> [i \in 1..Len(iter_user_stanzas(o)) |->
                    StanzaView(o.stanzas[iter_user_stanzas(o)[i]])]]

\* C6: for a document that loads and passes check_required, writing the
\* ontology (the header, then every user stanza) and loading what was
\* written gives an ontology equal to the first in the header metadata,
\* the data version included, and in every field of every stanza.
C6_RoundTrip ==
    (pc \in {"write_failed", "reload_failed", "reloaded"}
     /\ check_required(onto) = NoError)
        => (pc = "reloaded" /\ ModelView(onto2) = ModelView(onto))

\* ------------------------------------------ properties under SpecSynonym
\* the reader that took the last line is a stanza reader with a stanza
OnAStanza == rd.current # "Header" /\ rd.stanza[rd.current] # None
LastStanza == onto.stanzas[rd.stanza[rd.current]]

\* the last line fed carried a deprecated tag with a well-formed value to a
\* Term or Typedef stanza, its synonym type (if any) declared
DeprecatedStep ==
    /\ pc \in {"loading", "failed"}
    /\ last.k = "tag" /\ last.wf
    /\ last.tag \in DeprecatedSynonymTags \cup DeprecatedXRefTags
                        \cup {"use_term"}
    /\ rd.current \in {"Term", "Typedef"}
    /\ OnAStanza
    /\ last.x # "" => last.x \in DefNames(onto.synonymtypedef)

\* what the deprecated tag of the last line leaves on the stanza
DeprecatedEffect ==
    LET s == LastStanza
    IN  CASE last.tag \in DeprecatedSynonymTags ->
                 /\ s.synonyms # <<>>
                 /\ s.synonyms[Len(s.synonyms)].text = last.v
                 /\ s.synonyms[Len(s.synonyms)].scope
                        = DeprecatedSynonymScope[last.tag]
          [] last.tag \in DeprecatedXRefTags ->
                 /\ s.xref # <<>>
                 /\ s.xref[Len(s.xref)].reference = last.v
          [] OTHER ->
                 /\ s.consider # <<>>
                 /\ s.consider[Len(s.consider)] = last.v

\* C11: a deprecated tag (exact_, narrow_, related_, broad_synonym,
\* xref_analog, xref_unk, use_term) is still processed: the line raises no
\* error, the deprecated-tag policy is invoked (a warning under warn, none
\* under silent), and the tag's value is appended as a synonym of the
\* implied scope, an xref, or a consider entry.
C11_DeprecatedTagsProcessed ==
    DeprecatedStep =>
        /\ err = NoError
        /\ rd.deprecated_tag_option = DeprecatedTagWarn
               => warns = << <<"deprecated tag", last.tag>> >>
        /\ rd.deprecated_tag_option = DeprecatedTagSilent => warns = <<>>
        /\ DeprecatedEffect

\* a well-formed synonym line is being handed to a stanza reader
SynonymStep ==
    /\ pc = "loading"
    /\ rd'.lineno = rd.lineno + 1
    /\ last'.k = "tag" /\ last'.tag = "synonym" /\ last'.wf
    /\ OnAStanza

\* a well-formed synonymtypedef line of a new name goes to the header
SynonymTypedefStep ==
    /\ pc = "loading"
    /\ rd'.lineno = rd.lineno + 1
    /\ last'.k = "tag" /\ last'.tag = "synonymtypedef" /\ last'.wf
    /\ rd.current = "Header"
    /\ last'.v \notin DefNames(onto.synonymtypedef)

\* the scope the format gives the synonym of a line
ExpectedScope(line, defs) ==
    IF line.w # "" THEN line.w
    ELSE IF line.x = "" THEN "RELATED"
    ELSE DefNamed(defs, line.x).scope

SynonymOutcome ==
    LET id == rd.stanza[rd.current]
        before == onto.stanzas[id].synonyms
        after == onto'.stanzas[id].synonyms
        line == last'
    IN  IF line.x # "" /\ line.x \notin DefNames(onto.synonymtypedef)
        THEN err' # NoError /\ onto' = onto
        ELSE /\ err' = NoError
             /\ Len(after) = Len(before) + 1
             /\ SubSeq(after, 1, Len(before)) = before
             /\ after[Len(after)].text = line.v
             /\ after[Len(after)].type = Group(line.x)
             /\ after[Len(after)].scope
                    = ExpectedScope(line, onto.synonymtypedef)

\* C20: a synonym's scope is the explicit scope if given, otherwise RELATED
\* when no type is named, otherwise the default scope of the declared type;
\* naming an undeclared type is an error; a type declared without a scope
\* has default scope RELATED; and `"foo" EXACT []` parses as text foo,
\* scope EXACT, no type.
C20_SynonymScope ==
    [][/\ SynonymStep => SynonymOutcome
       /\ SynonymTypedefStep =>
              DefNamed(onto'.synonymtypedef, last'.v).scope
                  = (IF last'.x = "" THEN "RELATED" ELSE last'.x)
       /\ SYNONYM_PATTERN(<<Quoted("foo"), Word("EXACT"), DbXRefList("")>>)
              = TagLine4("synonym", "foo", "EXACT", "", "")]_vars

\* a synonym naming only the type T (declared EXACT) was added as EXACT
C20_Witness ==
    /\ pc = "loading" /\ err = NoError
    /\ last = TagLine4("synonym", "foo", "", "T", "")
    /\ OnAStanza
    /\ LastStanza.synonyms # <<>>
    /\ LastStanza.synonyms[Len(LastStanza.synonyms)].scope = "EXACT"
    /\ LastStanza.synonyms[Len(LastStanza.synonyms)].type = "T"

\* ------------------------------------------- properties under SpecBlocks
\* the step hands the next line of the current source to the reader
FeedStep ==
    /\ pc = "loading"
    /\ rd'.source = rd.source
    /\ rd'.lineno = rd.lineno + 1

\* the step hands a stanza header of a known kind to the reader
HeaderStep == FeedStep /\ last'.k = "header" /\ last'.v \in StanzaKinds

\* the step hands a tag other than id to a stanza reader with no stanza
LeadingTagStep ==
    /\ FeedStep
    /\ last'.k = "tag" /\ last'.tag # "id"
    /\ rd.current # "Header" /\ rd.stanza[rd.current] = None

\* C12: after every stanza header the reader of that kind has no current
\* stanza, and a leading tag other than id, recognized or not, raises an
\* error and modifies no stanza.
C12_IdFirst ==
    [][/\ HeaderStep =>
              /\ err' = NoError
              /\ rd'.current = last'.v
              /\ rd'.stanza[last'.v] = None
              /\ onto' = onto
       /\ LeadingTagStep => err' # NoError /\ onto' = onto]_vars

\* the block of the Term A is followed at once by a second [Term] header
\* and a name, which fails and leaves A without that name
C12_Witness ==
    /\ pc = "failed" /\ err = ExpectedId
    /\ last = TagLine("name", "n")
    /\ rd.current = "Term"
    /\ rd.rsource["Term"] = rd.source
    /\ rd.rlineno["Term"] = rd.lineno - 1
    /\ "A" \in DOMAIN onto.stanzas
    /\ onto.stanzas["A"].kind = "Term"
    /\ onto.stanzas["A"].id_source = rd.source
    /\ onto.stanzas["A"].id_lineno = rd.lineno - 2
    /\ onto.stanzas["A"].name # "n"

\* the step hands a well-formed line of this tag to a stanza reader that
\* is attached to a stanza
AttachedStep(tag) ==
    /\ FeedStep
    /\ last'.k = "tag" /\ last'.wf /\ last'.tag = tag
    /\ OnAStanza

\* C13: on one stanza, whatever block or source the tags come from, a
\* second def and a second comment raise an error whatever their value, a
\* second id inside one block raises an error, and a second name never
\* raises: it warns exactly when it differs from the existing name, and the
\* name afterwards is the later value.
C13_DuplicateTags ==
    [][/\ AttachedStep("def") /\ LastStanza.definition # None
              => err' # NoError /\ onto' = onto
       /\ AttachedStep("comment") /\ LastStanza.comment # None
              => err' # NoError /\ onto' = onto
       /\ AttachedStep("id") => err' # NoError /\ onto' = onto
       /\ AttachedStep("name") =>
              /\ err' = NoError
              /\ onto'.stanzas[rd.stanza[rd.current]].name = last'.v
              /\ warns' # <<>>
                     <=> LastStanza.name \notin {None, last'.v}]_vars

\* the def of A, given in S1, is given again with the same value in S2
C13_Witness ==
    /\ pc = "failed" /\ err # NoError
    /\ rd.source = "S2"
    /\ last = TagLine2("def", "x", "")
    /\ OnAStanza
    /\ LastStanza.id_source = "S2"
    /\ LastStanza.definition = "x"

NoDuplicates(seq) ==
    \A i, j \in DOMAIN seq : seq[i] = seq[j] => i = j

\* the step hands a well-formed id to a stanza reader with no stanza
IdStep ==
    /\ FeedStep
    /\ last'.k = "tag" /\ last'.wf /\ last'.tag = "id"
    /\ rd.current # "Header" /\ rd.stanza[rd.current] = None

\* ... an id that is registered with the kind of the reader
ReattachStep ==
    /\ IdStep
    /\ last'.v \in DOMAIN onto.stanzas
    /\ onto.stanzas[last'.v].kind = rd.current

\* the targets of the is_a references of a stanza, in order
IsATargets(s) ==
    LET under == RefsUnder(s.references, "is_a")
    IN  [i \in 1..Len(under) |-> under[i].reference]

\* C14: the registry holds one stanza per declared id in first-seen order;
\* a later block of the same kind and id re-attaches to the stanza without
\* creating or moving one, and multi-valued tags are appended after those
\* already present.
C14_Registry ==
    [][FeedStep =>
         /\ Range(onto'.order) = DOMAIN onto'.stanzas
         /\ NoDuplicates(onto'.order)
         /\ onto'.order =
                IF IdStep /\ err' = NoError
                          /\ last'.v \notin DOMAIN onto.stanzas
                THEN Append(onto.order, last'.v)
                ELSE onto.order
         /\ ReattachStep =>
                /\ err' = NoError
                /\ rd'.stanza[rd.current] = last'.v
                /\ onto'.stanzas =
                       [onto.stanzas EXCEPT
                           ![last'.v].id_source = rd'.source,
                           ![last'.v].id_lineno = rd'.lineno]
         /\ AttachedStep("alt_id") =>
                /\ err' = NoError
                /\ onto'.stanzas[rd.stanza[rd.current]].alt_ids
                       = Append(LastStanza.alt_ids, last'.v)
         /\ AttachedStep("is_a") =>
                /\ err' = NoError
                /\ IsATargets(onto'.stanzas[rd.stanza[rd.current]])
                       = Append(IsATargets(LastStanza), last'.v)]_vars

\* the block of A in S2 added an alt_id after the one S1 gave
C14_Witness ==
    /\ pc = "loading"
    /\ rd.source = "S2"
    /\ last = TagLine("alt_id", "Y")
    /\ OnAStanza
    /\ LastStanza.id = "A"
    /\ LastStanza.alt_ids = <<"X", "Y">>

\* the ids Ontology() registers before any document is read
BuiltinIds == DOMAIN NewOntology.stanzas

\* C15: an id tag whose value is the id of a builtin, marker stanza or
\* builtin relation Typedef, is rejected in every stanza kind, so no
\* document re-attaches to a builtin or changes its tags.
C15_BuiltinIdsReserved ==
    [][FeedStep =>
         /\ IdStep /\ last'.v \in BuiltinIds => err' # NoError
         /\ \A id \in BuiltinIds : onto'.stanzas[id] = onto.stanzas[id]]_vars

\* the lines a second source may start with
FirstLines ==
    {HeaderLine("Term"), TagLine("id", "B"), TagLine("name", "m"),
     TagLine("alt_id", "Y"), TagLine("is_a", "A")}

\* the reader takes this line from this state of the load
ReadNext(o, r, line) ==
    ReadLine([onto |-> o, rd |-> r, err |-> NoError, warns |-> <<>>], line)

\* C17: loading S1 then S2 gives the same outcome and the same model,
\* provenance aside, as loading the lines of S1 followed by the lines of
\* S2 as one stream: whatever line S2 starts with, it is received after
\* the change of source as it is received when it follows the last line
\* of S1 in the same stream.
C17_SourcesAsOneStream ==
    [][pc = "loading" /\ rd'.source # rd.source =>
         \A line \in FirstLines :
             /\ ReadNext(onto', rd', line).err = ReadNext(onto, rd, line).err
             /\ ModelView(ReadNext(onto', rd', line).onto)
                    = ModelView(ReadNext(onto, rd, line).onto)]_vars

\* --------------------------------------------- properties under SpecDocs
\* the stanza lacks a mandatory tag of its kind
LacksRequired(s) ==
    \/ s.kind \in {"Term", "Typedef"} /\ s.name = None
    \/ s.kind = "Instance"
       /\ \A i \in DOMAIN s.references : s.references[i].rel # "instance_of"

\* the ids of the stanzas of the registry that lack a mandatory tag, in
\* registry order
Lacking(o) == SelectSeq(o.order, LAMBDA id : LacksRequired(o.stanzas[id]))

\* the step is a call of check_required
CheckStep == res'.op = "check_required" /\ res.op # "check_required"

\* C16: check_required raises if and only if some stanza of the registry
\* lacks a mandatory tag of its kind (name for a Term or Typedef, an
\* instance_of reference for an Instance); the error is raised on the
\* first such stanza in registry order; no builtin lacks one; and the call
\* leaves the ontology as it was.
C16_CheckRequired ==
    [][CheckStep =>
         /\ onto' = onto
         /\ err' # NoError <=> Lacking(onto) # <<>>
         /\ Lacking(onto) # <<>> =>
                /\ res'.id = Lacking(onto)[1]
                /\ err' = IF onto.stanzas[res'.id].kind = "Instance"
                          THEN MissingInstanceOf ELSE MissingName
         /\ \A id \in BuiltinIds : ~LacksRequired(onto.stanzas[id])]_vars

\* the Instance A has instance_of and no name and passes; the error is
\* raised on B, which has no name
C16_Witness ==
    /\ pc = "check_failed" /\ err = MissingName
    /\ res.id = "B"
    /\ onto.stanzas["A"].kind = "Instance"
    /\ onto.stanzas["A"].name = None

RECURSIVE Flatten(_)
Flatten(seqs) ==
    IF seqs = <<>> THEN <<>> ELSE Head(seqs) \o Flatten(Tail(seqs))

\* the references of the user stanzas of o that satisfy test, as
\* <<owner, target>>, in the order resolution visits them
RefsWhere(o, test(_, _)) ==
    LET ids == iter_user_stanzas(o)
    IN  Flatten([k \in 1..Len(ids) |->
            LET s == o.stanzas[ids[k]]
                hit == SelectSeq(s.references,
                                 LAMBDA r : test(s, r.reference))
            IN  [i \in 1..Len(hit) |-> <<s.id, hit[i].reference>>]])

\* the references whose target is registered and obsolete while the owner
\* is not obsolete
ObsoleteRefs(o) ==
    RefsWhere(o,
        LAMBDA s, t : /\ ~s.is_obsolete
                      /\ t \in DOMAIN o.stanzas
                      /\ o.stanzas[t].is_obsolete)

\* the references whose target is not registered, whoever the owner is
UnknownRefs(o) ==
    RefsWhere(o,
        LAMBDA s, t : t \notin DOMAIN o.stanzas)

\* the warnings with this message, and the warnings a policy that warns
\* gives for these references
WarningsOf(msg) == SelectSeq(warns, LAMBDA w : w[1] = msg)
WarningsFor(msg, refs) == [i \in 1..Len(refs) |-> <<msg, refs[i][2]>>]

\* every reference to a registered target holds its resolved target
RegisteredResolved(o) ==
    \A id \in Range(iter_user_stanzas(o)) :
        \A i \in DOMAIN o.stanzas[id].references :
            LET r == o.stanzas[id].references[i]
            IN  r.reference \in DOMAIN o.stanzas
                    => r.reference_object = r.reference

\* C18: the obsolete-reference policy is invoked for exactly the references
\* whose target resolves to an obsolete stanza while the owner is not
\* obsolete; the references of an obsolete owner are still resolved and
\* still go through the dangling-reference policy.
C18_ObsoletePolicy ==
    pc \in {"resolved", "resolve_failed"} =>
        /\ opts.dangling = DanglingReferenceWarn =>
              /\ opts.obsolete = DanglingReferenceWarn =>
                    /\ err = NoError
                    /\ WarningsOf("reference to obsolete ")
                           = WarningsFor("reference to obsolete ",
                                         ObsoleteRefs(onto))
                    /\ WarningsOf("reference to unknown ")
                           = WarningsFor("reference to unknown ",
                                         UnknownRefs(onto))
              /\ opts.obsolete = DanglingReferenceFail =>
                    /\ err = ObsoleteReference <=> ObsoleteRefs(onto) # <<>>
                    /\ err \in {NoError, ObsoleteReference}
              /\ opts.obsolete = DanglingReferenceIgnore =>
                    /\ err = NoError
                    /\ WarningsOf("reference to obsolete ") = <<>>
        /\ opts.dangling = DanglingReferenceFail
           /\ opts.obsolete # DanglingReferenceFail =>
              err = UnknownReference <=> UnknownRefs(onto) # <<>>
        /\ err = NoError => RegisteredResolved(onto)

\* under the fail policy the obsolete A refers to the obsolete B: the
\* reference is resolved and nothing is raised
C18_Witness ==
    /\ pc = "resolved" /\ err = NoError
    /\ opts.obsolete = DanglingReferenceFail
    /\ onto.stanzas["A"].is_obsolete
    /\ onto.stanzas["B"].is_obsolete
    /\ \E i \in DOMAIN onto.stanzas["A"].references :
           /\ onto.stanzas["A"].references[i].reference = "B"
           /\ onto.stanzas["A"].references[i].reference_object = "B"

\* resolve_references ends with the exception of a fail policy
ResolveFails ==
    /\ pc = "loaded" /\ pc' = "resolve_failed"
    /\ err' \in {UnknownReference, ObsoleteReference}

\* no reference of any stanza holds a resolved target or a resolved
\* relation type
NothingResolved(o) ==
    \A id \in DOMAIN o.stanzas :
        IsBuiltinStanza(o.stanzas[id]) \/
            \A i \in DOMAIN o.stanzas[id].references :
                /\ o.stanzas[id].references[i].reference_object = Unset
                /\ o.stanzas[id].references[i].rel_object = Unset

\* C19: when resolve_references raises under a fail policy the ontology is
\* left loaded but unresolved: registry and tags as after the load, and no
\* reference of any stanza, those before the failing one included, holds a
\* resolved target or relation type.
C19_FailLeavesUnresolved ==
    [][ResolveFails => onto' = onto /\ NothingResolved(onto')]_vars


\* the four marker stanzas Ontology() adds after reading BUILTIN
BuiltinMarkers == {"OBO:TYPE", "OBO:INSTANCE", "OBO:TERM", "OBO:TERM_OR_TYPE"}

\* the names of the sources a document was read from: none of them is
\* the name "<<builtin>>" that Ontology() gives the source of BUILTIN
LoadedSources == {"S1", "S2"}

\* C21: whatever sources have been loaded, each of the eight builtin
\* relation ids names a Typedef of the registry and each of the four marker
\* ids names its builtin stanza; iter_user_stanzas yields, in registry
\* order, exactly the stanzas created by the loaded sources and none of
\* the twelve builtins.
C21_BuiltinsApart ==
    /\ \A r \in Range(BuiltinRelations) :
           r \in DOMAIN onto.stanzas /\ onto.stanzas[r].kind = "Typedef"
    /\ \A m \in BuiltinMarkers :
           m \in DOMAIN onto.stanzas /\ IsBuiltinStanza(onto.stanzas[m])
    /\ iter_user_stanzas(onto)
           = SelectSeq(onto.order,
                 LAMBDA id : onto.stanzas[id].source \in LoadedSources)
    /\ Range(iter_user_stanzas(onto)) \cap BuiltinIds = {}

\* a document has created a stanza and re-attached to the Typedef is_a
C21_Witness ==
    /\ Len(iter_user_stanzas(onto)) >= 1
    /\ onto.stanzas["is_a"].id_source \in LoadedSources



RECURSIVE AncestorsClaimed(_, _, _)
\* x itself when asked for, then, for each is_a reference of x in the order
\* of its lines, the parent followed by the parent's own ancestors
AncestorsClaimed(o, x, include_self) ==
    LET links == IF IsBuiltinStanza(o.stanzas[x]) THEN <<>>
                 ELSE IsARefs(o, x)
        RECURSIVE Over(_)
        Over(i) ==
            IF i > Len(links) THEN <<>>
            ELSE AncestorsClaimed(o, links[i].reference_object, TRUE)
                     \o Over(i + 1)
    IN  (IF include_self THEN <<x>> ELSE <<>>) \o Over(1)

\* C23: on an acyclic resolved ontology, ancestors(is_a, include_self)
\* yields the stanza first when include_self is set, then each parent in
\* declaration order followed by that parent's ancestors, depth first and
\* without removing duplicates: a stanza reached by k routes is yielded k
\* times, and the starting stanza is not yielded when include_self is False.
C23_AncestorsDepthFirst ==
    (pc = "resolved" /\ res.op = "ancestors"
     /\ Acyclic(onto) /\ FullyResolved(onto))
        => /\ res.status = Done
           /\ res.items = AncestorsClaimed(onto, res.id, res.include_self)


\* C29: whatever the resolved is_a graph, with or without cycle, no path
\* that paths(is_a, include_self=True) yields, before it returns or raises,
\* holds a stanza twice.
C29_PathsNeverRepeat ==
    (pc = "resolved" /\ res.op = "paths" /\ res.include_self)
        => \A i \in 1..Len(res.paths) : NoDuplicates(res.paths[i])

\* on a graph with a cycle, a path was yielded before the loop was met
C29_Witness ==
    /\ pc = "resolved" /\ res.op = "paths" /\ res.include_self
    /\ res.status = LoopError
    /\ Len(res.paths) >= 1
    /\ ~Acyclic(onto)

\* --------------------------------------------- properties under SpecRel
\* the stanzas a document declared, in registry order, whose parents(rel)
\* yields x
ClaimedChildrenUnder(o, x, rel) ==
    SelectSeq(iter_user_stanzas(o),
              LAMBDA y : x \in Range(parents(o, y, rel).items))

\* C22: for every relation label R, X.children(R) yields the stanzas of the
\* registry whose parents(R) includes X and no other stanza; a stanza that
\* has X as its is_a parent only is not yielded by X.children("part_of").
C22_ChildrenOfRelation ==
    (pc = "resolved" /\ res.op = "children" /\ res.status = Done)
        => Range(res.items)
               = Range(ClaimedChildrenUnder(onto, res.id, res.rel))


\* ------------------------------------------ properties under SpecSyntax
\* the line just fed is a header of a kind no reader exists for, or a line
\* that is neither blank, comment, header nor tag: value
SyntaxErrorStep ==
    /\ FeedStep
    /\ \/ last'.k = "garbage"
       \/ last'.k = "header" /\ last'.v \notin StanzaKinds

\* the line just fed is blank or starts with !
SkippedStep == FeedStep /\ last'.k \in {"blank", "comment"}

\* C24: under every unhandled-tag and deprecated-tag policy, a header line
\* of a kind other than Term, Typedef or Instance and a line that is
\* neither blank, comment, header nor tag: value end the load with an
\* error, without switching the active reader and without modifying a
\* stanza; a blank line and a line starting with ! change nothing but the
\* line count.
C24_SyntaxErrorsFatal ==
    [][/\ SyntaxErrorStep =>
              /\ err' \in {UnhandledStanzaType, SyntaxError}
              /\ pc' = "failed"
              /\ rd'.current = rd.current
              /\ rd'.stanza = rd.stanza
              /\ onto' = onto
       /\ SkippedStep =>
              /\ err' = NoError
              /\ pc' = "loading"
              /\ rd' = [rd EXCEPT !.lineno = @ + 1]
              /\ onto' = onto]_vars

\* a load that tolerates unhandled and deprecated tags has ended on a line
\* that is no header and no tag, after a stanza was attached
C24_Witness ==
    /\ pc = "failed"
    /\ err = SyntaxError
    /\ last.k = "garbage"
    /\ rd.unhandled_tag_option = UnhandledTagIgnore
    /\ rd.deprecated_tag_option = DeprecatedTagSilent
    /\ "A" \in DOMAIN onto.stanzas


\* ------------------------------------------- properties under SpecRaise
\* the tag line just fed made its reader raise
RaisingTagStep == FeedStep /\ last'.k = "tag" /\ err' # NoError

\* C28: a tag line that makes a reader raise (malformed value, duplicate
\* def, comment or id, tag before the id, reserved id, id of a stanza of
\* another kind, undeclared subset or synonym type) leaves the ontology as
\* it was before the line: registry, header fields and every tag, synonym,
\* xref and reference of every stanza; what earlier lines applied stays.
C28_RaisingLineChangesNothing ==
    [][RaisingTagStep => onto' = onto]_vars

\* a subset line naming an undeclared subset was rejected after the name
\* of the stanza had been read
C28_Witness ==
    /\ pc = "failed"
    /\ err = UndefinedSubset
    /\ last = TagLine("subset", "S")
    /\ "A" \in DOMAIN onto.stanzas
    /\ onto.stanzas["A"].name # None


\* ------------------------------------------ properties under SpecEscape
\* what the format writes for one character of a value
EscapeOf(c) ==
    CASE c \in {Newline, CarriageReturn} -> <<Backslash, "n">>
      [] c = Tab -> <<Backslash, "t">>
      [] c \in {Backslash, "[", "]", "{", "}"} -> <<Backslash, c>>
      [] OTHER -> <<c>>

\* C25: a written value shows each newline and each carriage return as the
\* two characters backslash n, each tab as backslash t, and each backslash,
\* bracket and brace with one backslash before it; the boolean true is
\* written as true, and no line is written for a value that is false or
\* absent.
C25_ValueEscaping ==
    pc = "written" =>
        CASE res.op \in {"false", "absent"} -> out = <<>>
          [] res.op = "true" ->
                 out = <<[tag |-> "name", text |-> <<"t", "r", "u", "e">>]>>
          [] OTHER ->
                 out = <<[tag |-> "name",
                          text |-> Flatten([i \in 1..Len(res.items) |->
                                               EscapeOf(res.items[i])])]>>

\* the text ends with a backslash that no backslash escapes
EndsWithLoneBackslash(text) ==
    \E k \in 1..Len(text) :
        /\ k % 2 = 1
        /\ \A i \in (Len(text) - k + 1)..Len(text) : text[i] = Backslash
        /\ Len(text) - k >= 1 => text[Len(text) - k] # Backslash

RECURSIVE UnescapeOf(_)
\* what the format reads from a text: backslash n, t, r for newline, tab,
\* carriage return, and backslash c for any other character c
UnescapeOf(text) ==
    IF text = <<>> THEN <<>>
    ELSE IF Head(text) = Backslash /\ Len(text) >= 2
    THEN <<CASE text[2] = "n" -> Newline
             [] text[2] = "t" -> Tab
             [] text[2] = "r" -> CarriageReturn
             [] OTHER -> text[2]>> \o UnescapeOf(Tail(Tail(text)))
    ELSE <<Head(text)>> \o UnescapeOf(Tail(text))

\* C26: when the value of a tag is unescaped, backslash n, t and r become
\* newline, tab and carriage return and backslash before any other
\* character becomes that character; a value that ends with one unescaped
\* backslash is rejected with a format error, never accepted with the
\* backslash dropped.
C26_Unescape ==
    (pc = "read" /\ res.items # <<>>) =>
        IF EndsWithLoneBackslash(res.items)
        THEN err = OBOInvalidFormat
        ELSE err = NoError /\ out = <<UnescapeOf(res.items)>>

====
